---- MODULE Spec2Model ----
(***************************************************************************)
(* Licenses-WebUI (app.py): the refresh scheduler, the manual refresh      *)
(* route, the status reader and the four change detectors, as a state      *)
(* machine.  The module-level globals of app.py are the variables; every   *)
(* thread of the process (the refresh_loop worker, a Flask request thread  *)
(* serving POST /refresh, one serving GET /status, one serving POST        *)
(* /refresh-eid) is a program counter pc[t] with its locals loc[t].        *)
(***************************************************************************)
EXTENDS Integers, Sequences, FiniteSets, TLC

VARIABLES
    cfg,                    \* config.ini as read at import (never written afterwards)
    clock,                  \* index into Nows: the wall clock
    pc,                     \* per thread: position in its function
    loc,                    \* per thread: its local variables
    _lock,                  \* threading.Lock(): "free" or the holding thread
    _raw_output,
    _parsed,
    _last_update,
    _last_error,
    _notified_duplicates,
    _notified_extratime,
    _soldout_last_state,
    _daemon_last_state,
    _stats_last_state,
    feature_usage,          \* the rows of table feature_usage, per feature, in insertion order
    _eid_cache,
    _eid_cache_timestamp,
    _clm_available,
    fetches,                \* number of status-command invocations started so far
    requests,               \* number of GET /status and POST /refresh-eid requests so far
    daemon_sent,            \* observation: the last two daemon notifications sent (TRUE: up)
    dup_sent,               \* observation: per duplicate key, notifications sent (counted to 2)
    extratime_sent,         \* observation: per (user, computer), notifications sent (counted to 2)
    soldout_sent,           \* observation: per feature, the last two sold-out notifications sent
    undelivered,            \* observation: per detector, the notifications the webhook refused
    actor,                  \* observation: the thread that took the last step
    tblIn,                  \* inputs of the decision-table harness
    tblOut,                 \* its result
    txtIn,                  \* the text given to parse_lmstat called on its own
    txtOut,                 \* its result
    tsIn,                   \* a start string and the wall clock, given to _parse_start_timestamp
    tsOut,                  \* its result
    _shutdown_event,        \* threading.Event(): TRUE once set
    loop,                   \* refresh_loop: where the worker is between its cycles
    chart,                  \* a request given to api_stats with the table it reads, and the response
    restart,                \* restart_service: its position, what it observed and what it sent
    update                  \* the update check: _LAST_TEAMS_NOTIFIED_VERSION and what was sent

vars == <<cfg, clock, pc, loc, _lock, _raw_output, _parsed, _last_update, _last_error,
          _notified_duplicates, _notified_extratime, _soldout_last_state,
          _daemon_last_state, _stats_last_state, feature_usage, _eid_cache,
          _eid_cache_timestamp, _clm_available, fetches, requests, daemon_sent, dup_sent,
          extratime_sent, soldout_sent, undelivered, actor, tblIn, tblOut, txtIn, txtOut,
          tsIn, tsOut, _shutdown_event, loop, chart, restart, update>>

\* Python's None, True and False where a value is Optional[bool] or Optional[str];
\* NoneInt where it is Optional[int]
None == "None"
PyTrue == "True"
PyFalse == "False"
PyBool(b) == IF b THEN PyTrue ELSE PyFalse
NoneInt == 0 - 1

-----------------------------------------------------------------------------
(* Bounds of the model *)

\* status-command invocations (scheduled and manual together) in one run
MaxFetches == 2

\* cycles and requests (GET /status, POST /refresh-eid) together in a run that has readers
MaxOps == 2

\* fetches and GET /status requests together in a run of the snapshot store
MaxStoreOps == 3

\* cycles of the worker in a run with a webhook that may refuse
MaxSinkFetches == 3

\* lines of a text given to parse_lmstat called on its own
MaxLines == 3

\* lines of a text given to _lmstat_output_indicates_ok called on its own
MaxHintLines == 2

\* program constants
STATE_STOPPED == 1
STATE_RUNNING == 4
TEAMS_EXTRATIME_DURATION == 72
EID_CACHE_HOURS == 24

-----------------------------------------------------------------------------
(* Feature names: str.lower() and the 'maint' substring test on the names   *)
(* that occur in the modelled command outputs.                              *)

FeatureNames == {"CAD", "CAD_Maint", "Viewer"}

lower(name) ==
    CASE name = "CAD" -> "cad"
      [] name = "CAD_Maint" -> "cad_maint"
      [] name = "Viewer" -> "viewer"
      [] OTHER -> name

\* 'h in lname' for the lower-case strings of the model
Substr(h, lname) ==
    \/ h = lname
    \/ <<h, lname>> \in { <<"maint", "cad_maint">>, <<"cad", "cad_maint">>, <<"view", "viewer">> }

has_maint(lname) == Substr("maint", lname)

-----------------------------------------------------------------------------
(* Configuration (config.ini).  One of these is fixed at start-up.  The     *)
(* exclusion lists and the hide list hold the lower-cased entries.          *)

Config(enabled, daemon, dup, extratime, soldout, maint, excl, hide) ==
    [teams_enabled |-> enabled, notify_daemon |-> daemon, notify_dup |-> dup,
     notify_extratime |-> extratime, notify_soldout |-> soldout, hide_maint |-> maint,
     soldout_exclusion |-> excl, extratime_exclusion |-> excl, hide_list |-> hide]

Configs ==
    { Config(TRUE, TRUE, FALSE, FALSE, FALSE, TRUE, {}, {}),
      Config(TRUE, FALSE, TRUE, FALSE, FALSE, TRUE, {}, {}),
      Config(TRUE, FALSE, TRUE, FALSE, FALSE, FALSE, {}, {}),
      Config(TRUE, FALSE, FALSE, TRUE, FALSE, TRUE, {"viewer"}, {"view"}),
      Config(TRUE, FALSE, FALSE, FALSE, TRUE, TRUE, {"viewer"}, {"view"}),
      Config(TRUE, FALSE, FALSE, FALSE, TRUE, FALSE, {}, {}),
      Config(FALSE, TRUE, TRUE, TRUE, TRUE, TRUE, {}, {}) }

TEAMS_ENABLED == cfg.teams_enabled
TEAMS_NOTIFY_DAEMON == cfg.notify_daemon
TEAMS_NOTIFY_DUPLICATE_CHECKER == cfg.notify_dup
TEAMS_NOTIFY_EXTRATIME == cfg.notify_extratime
TEAMS_NOTIFY_SOLDOUT == cfg.notify_soldout
HIDE_MAINT == cfg.hide_maint
TEAMS_SOLDOUT_EXCLUSION == cfg.soldout_exclusion
TEAMS_EXTRATIME_EXCLUSION == cfg.extratime_exclusion
HIDE_LIST == cfg.hide_list

-----------------------------------------------------------------------------
(* Dates.  A datetime is [y, mo, d, h, mi]; its timestamp is counted in     *)
(* minutes from 2000-01-01 00:00.                                           *)

IsLeap(y) == (y % 4 = 0 /\ y % 100 # 0) \/ y % 400 = 0

DaysInMonth(y, mo) ==
    CASE mo \in {4, 6, 9, 11} -> 30
      [] mo = 2 -> IF IsLeap(y) THEN 29 ELSE 28
      [] OTHER -> 31

RECURSIVE DaysBeforeMonth(_, _)
DaysBeforeMonth(y, mo) ==
    IF mo <= 1 THEN 0 ELSE DaysBeforeMonth(y, mo - 1) + DaysInMonth(y, mo - 1)

RECURSIVE DaysBeforeYear(_)
DaysBeforeYear(y) ==
    IF y <= 2000 THEN 0
    ELSE DaysBeforeYear(y - 1) + (IF IsLeap(y - 1) THEN 366 ELSE 365)

\* datetime.datetime(y, mo, d, h, mi) raises ValueError unless the fields are in range
ValidDate(y, mo, d, h, mi) ==
    /\ mo \in 1..12
    /\ d >= 1 /\ d <= DaysInMonth(y, mo)
    /\ h \in 0..23
    /\ mi \in 0..59

\* dt.timestamp(), in minutes
Timestamp(dt) ==
    ((DaysBeforeYear(dt.y) + DaysBeforeMonth(dt.y, dt.mo) + (dt.d - 1)) * 24 + dt.h) * 60 + dt.mi

Date(y, mo, d, h, mi) == [y |-> y, mo |-> mo, d |-> d, h |-> h, mi |-> mi]

\* The wall clock takes these values, in order.
Nows == << Date(2025, 11, 18, 9, 0), Date(2025, 11, 22, 9, 0) >>

\* A 'start' string of a user line, by the shape that the formats and regular
\* expressions of _parse_start_timestamp tell apart:
\*   "full": carries a year ('11/17/2025 12:34', 'Nov 17 2025 12:34', ...)
\*   "wd":   weekday MM/DD HH:MM      "md": MM/DD HH:MM      "bad": anything else
StartWd(mo, d, h, mi) == [fmt |-> "wd", y |-> 0, mo |-> mo, d |-> d, h |-> h, mi |-> mi]
StartMd(mo, d, h, mi) == [fmt |-> "md", y |-> 0, mo |-> mo, d |-> d, h |-> h, mi |-> mi]
StartFull(y, mo, d, h, mi) == [fmt |-> "full", y |-> y, mo |-> mo, d |-> d, h |-> h, mi |-> mi]
StartBad == [fmt |-> "bad", y |-> 0, mo |-> 0, d |-> 0, h |-> 0, mi |-> 0]

\* _parse_start_timestamp: epoch minutes, or NoneInt
_parse_start_timestamp(s, now) ==
    IF s.fmt = "full"
    THEN IF ValidDate(s.y, s.mo, s.d, s.h, s.mi)
         THEN Timestamp(Date(s.y, s.mo, s.d, s.h, s.mi))
         ELSE NoneInt
    ELSE IF s.fmt \in {"wd", "md"}
    THEN IF ~ValidDate(now.y, s.mo, s.d, s.h, s.mi)
         THEN NoneInt
         ELSE LET dt == Date(now.y, s.mo, s.d, s.h, s.mi)
              IN  IF Timestamp(dt) > Timestamp(now) + 2 * 24 * 60
                  THEN \* dt.replace(year=year-1) raises for Feb 29; the except falls through
                       IF ValidDate(now.y - 1, s.mo, s.d, s.h, s.mi)
                       THEN Timestamp(Date(now.y - 1, s.mo, s.d, s.h, s.mi))
                       ELSE NoneInt
                  ELSE Timestamp(dt)
    ELSE NoneInt

-----------------------------------------------------------------------------
(* Status text.  A raw text is a sequence of lines; a line is modelled by   *)
(* what the regular expressions of parse_lmstat and the substring test of   *)
(* _lmstat_output_indicates_ok can see of it.                               *)

\* 'Users of <name>:  (Total of <t> licenses issued;  Total of <u> licenses in use)'
LFeature(n, t, u) == [k |-> "feature", name |-> n, total |-> t, used |-> u, fail |-> FALSE]
\* '"<name>" ...' : a line that starts with a quoted token
LNamed(n) == [k |-> "named", name |-> n, fail |-> FALSE]
\* '... expiry: <text>'
LExpiry(e) == [k |-> "expiry", text |-> e, fail |-> FALSE]
\* '    <user> <computer> ... (v<version>) ... start <rest>'
LUser(u, c, v, s) == [k |-> "user", user |-> u, computer |-> c, version |-> v, start |-> s, fail |-> FALSE]
\* '"<user>" "<computer>" (v<version>) start <rest>': a user line whose tokens are
\* quoted; re_named_block captures <user>, re_user captures the tokens with their quotes
LQuotedUser(u, c, v, s) ==
    [k |-> "quoted_user", name |-> u, user |-> <<"quoted", u>>, computer |-> <<"quoted", c>>,
     version |-> v, start |-> s, fail |-> FALSE]
\* any other line, with its text; on the lines above, fail tells whether the line
\* contains one of the failure substrings as well
LMessage(s) == [k |-> "other", text |-> s]

\* messages of lmutil and of the license server, as they are printed
MsgConnect == "lmutil: Cannot connect to license server system. (-15,570:10061)"
MsgConnectUpper == "CANNOT CONNECT TO LICENSE SERVER SYSTEM"
MsgStatus == "Error getting status"
MsgHost == "No such host is known"
MsgRefused == "Connection Refused"
MsgCode == "FlexNet Licensing error:(-15,10)"
MsgOtherCode == "FlexNet Licensing error:(-1,359)"
MsgUp == "license server UP (MASTER) v11.16"
Messages ==
    { "", MsgConnect, MsgConnectUpper, MsgStatus, MsgHost, MsgRefused, MsgCode,
      MsgOtherCode, MsgUp }

\* an empty line, or the message of lmutil when it cannot reach the daemon
LOther(f) == LMessage(IF f THEN MsgConnect ELSE "")

\* the four regular expressions of lines 1360-1369: whether each finds a match
re_feature(line) == line.k = "feature"
re_named_block(line) == line.k \in {"named", "quoted_user"}
re_expiry(line) == line.k = "expiry"
re_user(line) == line.k \in {"user", "quoted_user"}

NewFeature(t, u) == [total |-> t, used |-> u, expiry |-> None, users |-> << >>]

\* dict.setdefault(name, value)
setdefault(features, name, value) ==
    IF name \in DOMAIN features THEN features
    ELSE [n \in DOMAIN features \cup {name} |-> IF n = name THEN value ELSE features[n]]

\* one iteration of the loop of parse_lmstat; st = [features, current]
parse_line(st, line) ==
    IF re_feature(line)
    THEN [features |-> setdefault(st.features, line.name, NewFeature(line.total, line.used)),
          current |-> line.name]
    ELSE IF re_named_block(line)
    THEN [features |-> setdefault(st.features, line.name, NewFeature(NoneInt, NoneInt)),
          current |-> line.name]
    ELSE IF re_expiry(line) /\ st.current # None
    THEN [st EXCEPT !.features[st.current].expiry = line.text]
    ELSE IF re_user(line) /\ st.current # None
    THEN [st EXCEPT !.features[st.current].users =
             Append(@, [user |-> line.user, computer |-> line.computer,
                        version |-> line.version, start |-> line.start])]
    ELSE st

RECURSIVE parse_from(_, _, _)
parse_from(st, lines, i) ==
    IF i > Len(lines) THEN st ELSE parse_from(parse_line(st, lines[i]), lines, i + 1)

EmptyMap == [n \in {} |-> None]

\* a parser whose dict outlives the call: it starts from the result of the last call
parse_lmstat_keeping(raw_text) ==
    parse_from([features |-> txtOut, current |-> None], raw_text, 1).features

\* line 1357: features = {} is local to the call
parse_lmstat(raw_text) ==
    parse_from([features |-> EmptyMap, current |-> None], raw_text, 1).features

\* the text as it is, letter case kept
str_keep(s) == s

\* str.lower() on the messages of the model
str_lower(s) ==
    CASE s = MsgConnect -> "lmutil: cannot connect to license server system. (-15,570:10061)"
      [] s = MsgConnectUpper -> "cannot connect to license server system"
      [] s = MsgStatus -> "error getting status"
      [] s = MsgHost -> "no such host is known"
      [] s = MsgRefused -> "connection refused"
      [] s = MsgCode -> "flexnet licensing error:(-15,10)"
      [] s = MsgOtherCode -> "flexnet licensing error:(-1,359)"
      [] s = MsgUp -> "license server up (master) v11.16"
      [] OTHER -> s

\* lines 1447-1453
patterns ==
    { "cannot connect to license server system", "error getting status",
      "no such host is known", "connection refused", "(-15" }

\* 'p in t' for a pattern and a message of the model, in whatever letter case
InStr(p, t) ==
    \/ p = t
    \/ <<p, t>> \in
         { <<"cannot connect to license server system",
             "lmutil: cannot connect to license server system. (-15,570:10061)">>,
           <<"(-15", "lmutil: cannot connect to license server system. (-15,570:10061)">>,
           <<"(-15", "flexnet licensing error:(-15,10)">>,
           <<"(-15", "FlexNet Licensing error:(-15,10)">>,
           <<"(-15", "lmutil: Cannot connect to license server system. (-15,570:10061)">> }

\* any(p in t for p in patterns) on one line; the patterns hold no line break
any_pattern(line) ==
    IF line.k = "other"
    THEN \E p \in patterns : InStr(p, str_lower(line.text))
    ELSE line.fail

\* _lmstat_output_indicates_ok
_lmstat_output_indicates_ok(text) == ~(\E i \in 1..Len(text) : any_pattern(text[i]))

-----------------------------------------------------------------------------
(* Command outputs.  try_lmstat_commands returns a header line, an empty    *)
(* line and the output of lmutil, or raises.                                *)

CommandHeader == << LOther(FALSE), LOther(FALSE) >>

OldStart == StartWd(11, 10, 8, 0)
NewStart == StartWd(11, 17, 12, 34)

\* one seat of CAD in use
TxtQuiet ==
    CommandHeader \o
    << LFeature("CAD", 2, 1), LUser("alice", "host1", "1.0", NewStart) >>

\* CAD sold out and checked out twice by alice@host1; so is the maintenance feature
TxtBusy ==
    CommandHeader \o
    << LFeature("CAD", 2, 2),
       LUser("alice", "host1", "1.0", OldStart),
       LUser("alice", "host1", "1.0", OldStart),
       LFeature("CAD_Maint", 1, 1),
       LUser("bob", "host2", "1.0", StartBad),
       LUser("bob", "host2", "1.0", StartBad),
       LFeature("Viewer", 1, 1) >>

\* lmutil ran, but reports that it cannot reach the daemon
TxtDown ==
    CommandHeader \o << LOther(TRUE) >>

LmstatOutputs == {TxtQuiet, TxtBusy, TxtDown}

-----------------------------------------------------------------------------
(* check_daemon_state                                                       *)

ServiceCodes == {NoneInt, 1, 2, 3, 4}

\* line 1473: service_running from the code of get_service_state
service_running_of(code) == IF code = NoneInt THEN None ELSE PyBool(code = STATE_RUNNING)

\* a decision that trusts the status command: no override when it succeeded
DaemonDecisionHintWins(current_up_hint, service_running, port_ok) ==
    IF current_up_hint
    THEN PyTrue
    ELSE IF service_running = PyFalse /\ port_ok = PyFalse THEN PyFalse
         ELSE IF service_running = PyFalse /\ port_ok = None THEN PyFalse
         ELSE IF port_ok = PyFalse /\ service_running = None THEN PyFalse
         ELSE PyBool(service_running = PyTrue \/ port_ok = PyTrue)

\* lines 1488-1508: the current state from the hint and the two probes
DaemonDecision(current_up_hint, service_running, port_ok) ==
    IF current_up_hint
    THEN IF service_running = PyFalse /\ port_ok = PyFalse THEN PyFalse
         ELSE IF service_running = PyFalse /\ port_ok = None THEN PyFalse
         ELSE IF port_ok = PyFalse /\ service_running = None THEN PyFalse
         ELSE PyTrue
    ELSE IF service_running = PyFalse /\ port_ok = PyFalse THEN PyFalse
         ELSE IF service_running = PyFalse /\ port_ok = None THEN PyFalse
         ELSE IF port_ok = PyFalse /\ service_running = None THEN PyFalse
         ELSE PyBool(service_running = PyTrue \/ port_ok = PyTrue)

\* notifications without the first-observation case: any difference notifies
DaemonNotesAnyChange(prev, current) ==
    IF prev # current THEN << current >> ELSE << >>

\* notifications that announce an outage and never the recovery
DaemonNotesDownOnly(prev, current) ==
    IF prev = None
    THEN IF current = PyFalse THEN << PyFalse >> ELSE << >>
    ELSE IF prev # current /\ current = PyFalse THEN << current >> ELSE << >>

\* lines 1520-1568: the notifications of one evaluation (PyTrue: up again, PyFalse: down)
DaemonNotes(prev, current) ==
    IF prev = None
    THEN IF current = PyFalse THEN << PyFalse >> ELSE << >>
    ELSE IF prev # current THEN << current >> ELSE << >>

Last2(s) == IF Len(s) <= 2 THEN s ELSE SubSeq(s, Len(s) - 1, Len(s))

-----------------------------------------------------------------------------
(* check_duplicates                                                         *)

Count(users, u, c) ==
    Cardinality({i \in 1..Len(users) : users[i].user = u /\ users[i].computer = c})

\* keys that need a third checkout to count as duplicates
DuplicateKeysOverTwo(parsed_data) ==
    UNION { { <<f, parsed_data[f].users[i].user, parsed_data[f].users[i].computer>> :
                i \in { j \in 1..Len(parsed_data[f].users) :
                          Count(parsed_data[f].users, parsed_data[f].users[j].user,
                                parsed_data[f].users[j].computer) > 2 } } :
            f \in { g \in DOMAIN parsed_data :
                      /\ ~(HIDE_MAINT /\ has_maint(lower(g)))
                      /\ Len(parsed_data[g].users) >= 2 } }

\* lines 1742-1758: the (feature, user, computer) keys with count > 1
DuplicateKeys(parsed_data) ==
    UNION { { <<f, parsed_data[f].users[i].user, parsed_data[f].users[i].computer>> :
                i \in { j \in 1..Len(parsed_data[f].users) :
                          Count(parsed_data[f].users, parsed_data[f].users[j].user,
                                parsed_data[f].users[j].computer) > 1 } } :
            f \in { g \in DOMAIN parsed_data :
                      /\ ~(HIDE_MAINT /\ has_maint(lower(g)))
                      /\ Len(parsed_data[g].users) >= 2 } }

\* lines 1759-1767: the keys appended to new_duplicates, given the notified set as read
NewDuplicates(parsed_data, notified) == DuplicateKeys(parsed_data) \ notified

\* the notification of a key: the key and its count
DuplicateNote(parsed_data, key) ==
    [key |-> key, count |-> Count(parsed_data[key[1]].users, key[2], key[3])]

-----------------------------------------------------------------------------
(* check_extratime                                                          *)

\* the sessions over the threshold, a start that does not parse counting as the epoch
OverSessionsFromEpoch(parsed_data, now) ==
    UNION { { [feature |-> f, i |-> i,
               user |-> parsed_data[f].users[i].user,
               computer |-> parsed_data[f].users[i].computer,
               minutes |->
                  LET start_ts == _parse_start_timestamp(parsed_data[f].users[i].start, now)
                  IN  IF start_ts = NoneInt THEN Timestamp(now) ELSE Timestamp(now) - start_ts] :
                i \in { j \in 1..Len(parsed_data[f].users) :
                          LET start_ts == _parse_start_timestamp(parsed_data[f].users[j].start, now)
                          IN  \/ start_ts = NoneInt
                              \/ Timestamp(now) - start_ts >= TEAMS_EXTRATIME_DURATION * 60 } } :
            f \in { g \in DOMAIN parsed_data :
                      /\ lower(g) \notin TEAMS_EXTRATIME_EXCLUSION
                      /\ ~(HIDE_MAINT /\ has_maint(lower(g))) } }

\* lines 1628-1641: the sessions over the threshold: [feature, user, computer, minutes]
OverSessions(parsed_data, now) ==
    UNION { { [feature |-> f, i |-> i,
               user |-> parsed_data[f].users[i].user,
               computer |-> parsed_data[f].users[i].computer,
               minutes |-> Timestamp(now) - _parse_start_timestamp(parsed_data[f].users[i].start, now)] :
                i \in { j \in 1..Len(parsed_data[f].users) :
                          LET start_ts == _parse_start_timestamp(parsed_data[f].users[j].start, now)
                          IN  /\ start_ts # NoneInt
                              /\ start_ts # 0
                              /\ Timestamp(now) - start_ts >= TEAMS_EXTRATIME_DURATION * 60 } } :
            f \in { g \in DOMAIN parsed_data :
                      /\ lower(g) \notin TEAMS_EXTRATIME_EXCLUSION
                      /\ ~(HIDE_MAINT /\ has_maint(lower(g))) } }

\* the keys of over_map
OverKeys(parsed_data, now) == { <<s.user, s.computer>> : s \in OverSessions(parsed_data, now) }

\* lines 1644-1646: the keys that pass the 'already notified' test, given the set as read
NewExtratime(parsed_data, now, notified) == OverKeys(parsed_data, now) \ notified

\* sorted(feats, key=lambda x: -x['hours']) on the entries of one key; entries of equal
\* hours stay in the order of the dict, one such order here
SortedByHours(S) ==
    CHOOSE seq \in [1..Cardinality(S) -> S] :
        /\ \A i, j \in 1..Cardinality(S) : i # j => seq[i] # seq[j]
        /\ \A i, j \in 1..Cardinality(S) : i < j => seq[i].minutes >= seq[j].minutes

\* line 1648: the notification of a key: one line per session over the threshold, the
\* feature and the elapsed time
ExtratimeNote(parsed_data, now, key) ==
    LET feats == { s \in OverSessions(parsed_data, now) : <<s.user, s.computer>> = key }
        sorted == SortedByHours(feats)
    IN  [key |-> key,
         features |-> [i \in 1..Cardinality(feats) |->
                          [feature |-> sorted[i].feature, minutes |-> sorted[i].minutes]]]

-----------------------------------------------------------------------------
(* check_soldout                                                            *)

Put(map, upd) ==
    [k \in DOMAIN map \cup DOMAIN upd |-> IF k \in DOMAIN upd THEN upd[k] ELSE map[k]]

\* lines 1684-1692: the features the loop does not skip
SoldoutEligible(parsed_data) ==
    { f \in DOMAIN parsed_data :
        /\ lower(f) \notin TEAMS_SOLDOUT_EXCLUSION
        /\ ~(HIDE_MAINT /\ has_maint(lower(f)))
        /\ parsed_data[f].total # NoneInt
        /\ parsed_data[f].used # NoneInt }

\* line 1693
sold_out(parsed_data, f) == parsed_data[f].used >= parsed_data[f].total

\* changes that follow the level, not the edge: every sold-out feature is reported
SoldoutChangesLevel(parsed_data, last) ==
    { [feature |-> f, is_soldout |-> sold_out(parsed_data, f)] :
        f \in { g \in SoldoutEligible(parsed_data) :
                  IF g \notin DOMAIN last
                  THEN sold_out(parsed_data, g)
                  ELSE last[g] # sold_out(parsed_data, g) \/ sold_out(parsed_data, g) } }

\* lines 1694-1701: the changes, given the stored map as read
SoldoutChanges(parsed_data, last) ==
    { [feature |-> f, is_soldout |-> sold_out(parsed_data, f)] :
        f \in { g \in SoldoutEligible(parsed_data) :
                  IF g \notin DOMAIN last
                  THEN sold_out(parsed_data, g)
                  ELSE last[g] # sold_out(parsed_data, g) } }

\* a detector that stores a value for every feature of the snapshot
SoldoutStoredAll(parsed_data) ==
    [f \in DOMAIN parsed_data |-> sold_out(parsed_data, f)]

\* line 1702: the values stored
SoldoutStored(parsed_data) ==
    [f \in SoldoutEligible(parsed_data) |-> sold_out(parsed_data, f)]

-----------------------------------------------------------------------------
(* store_feature_stats                                                      *)

\* lines 662-678: the features the loop does not skip
StatsEligible(licenses_data) ==
    { f \in DOMAIN licenses_data :
        /\ ~(HIDE_MAINT /\ has_maint(lower(f)))
        /\ ~(\E h \in HIDE_LIST : Substr(h, lower(f)))
        /\ licenses_data[f].used # NoneInt
        /\ licenses_data[f].total # NoneInt }

\* a Recorder that samples every eligible feature at every call
StatsChangedAlways(licenses_data, last) == StatsEligible(licenses_data)

\* lines 681-685: the features whose (used, total) differs from the tracked state
StatsChanged(licenses_data, last) ==
    { f \in StatsEligible(licenses_data) :
        \/ f \notin DOMAIN last
        \/ last[f] # <<licenses_data[f].used, licenses_data[f].total>> }

\* line 692, for every changed feature
StatsTracked(licenses_data, last) ==
    Put(last, [f \in StatsChanged(licenses_data, last) |->
                 <<licenses_data[f].used, licenses_data[f].total>>])

\* lines 687-690 and 694: the rows committed
StatsRows(licenses_data, last, rows, timestamp) ==
    [f \in DOMAIN rows \cup StatsChanged(licenses_data, last) |->
        IF f \in StatsChanged(licenses_data, last)
        THEN Append(IF f \in DOMAIN rows THEN rows[f] ELSE << >>,
                    [timestamp |-> timestamp, used |-> licenses_data[f].used,
                     available |-> licenses_data[f].total])
        ELSE rows[f]]

\* what sqlite3 can do to one call: succeed, fail to connect, fail after the inserts
DbOutcomes == {"ok", "connect_error", "commit_error"}

-----------------------------------------------------------------------------
(* The entitlement cache                                                    *)

\* ' - 00112-15895-00040-08571-EEC92 (Floating):'
LEid(id) == [k |-> "eid", id |-> id]
\* '   - M3D_CLWRX.ArcGIS 0/1'
LEidFeature(n) == [k |-> "feature", name |-> n]

RECURSIVE parse_eid_from(_, _, _, _)
parse_eid_from(map, current_eid, lines, i) ==
    IF i > Len(lines) THEN map
    ELSE IF lines[i].k = "eid"
    THEN parse_eid_from(map, lines[i].id, lines, i + 1)
    ELSE IF lines[i].k = "feature" /\ current_eid # None
    THEN parse_eid_from(
           [n \in DOMAIN map \cup {lines[i].name} |->
              IF n = lines[i].name
              THEN (IF n \in DOMAIN map THEN map[n] ELSE {}) \cup {current_eid}
              ELSE map[n]],
           current_eid, lines, i + 1)
    ELSE parse_eid_from(map, current_eid, lines, i + 1)

parse_eid_info(raw_text) == parse_eid_from(EmptyMap, None, raw_text, 1)

ClmA == << LEid("EID-1"), LEidFeature("CAD"), LEid("EID-2"), LEidFeature("CAD") >>
ClmB == << LEid("EID-1"), LEidFeature("Viewer") >>

\* what try_clm_query_features returns when the command succeeds with output
ClmOutputs == {ClmA, ClmB}

\* get_eid_info 619-620: the cache needs a refresh
EidStale(now) ==
    \/ _eid_cache = EmptyMap
    \/ Timestamp(now) - _eid_cache_timestamp > EID_CACHE_HOURS * 60

-----------------------------------------------------------------------------
(* Threads                                                                  *)

Worker == "worker"          \* threading.Thread(target=refresh_loop)
Manual == "manual"          \* a request thread in manual_refresh
Status == "status"          \* a request thread in status
EidRoute == "eidroute"      \* a request thread in refresh_eid_route
Main == "main"              \* the main thread, when app.py is run as a script
Browser == "browser"        \* a request thread in index or in eids_page
Cyclers == {Worker, Manual}
Loaders == Cyclers \cup {Main}
Threads == Loaders \cup {Status, EidRoute, Browser}

\* out doubles as the output of the CLM command in the two request threads that run it
Loc0 == [out |-> << >>, failed |-> FALSE, hint |-> FALSE, prev |-> None, current |-> None,
         seen |-> {}, new |-> {}, db |-> "none", done |-> "none", emitted |-> {}]

TblInputs == [hint : BOOLEAN, code : ServiceCodes, port : {PyTrue, PyFalse, None}]

\* line 1304: refresh_eid_cache() at import, before any thread runs
ImportEid ==
    \/ /\ _eid_cache = EmptyMap
       /\ _eid_cache_timestamp = 0
       /\ _clm_available = PyFalse
    \/ \E r \in ClmOutputs :
         /\ _eid_cache = parse_eid_info(r)
         /\ _eid_cache_timestamp = Timestamp(Nows[1])
         /\ _clm_available = PyTrue

\* restart_service not called yet.  code is the last code get_service_state returned,
\* seen_stopped whether any of them was STATE_STOPPED, polls the turns of the running
\* wait_for_state, commands the sc stop and sc start commands issued, in order
Restart0 == [at |-> "idle", code |-> NoneInt, seen_stopped |-> FALSE, polls |-> 0,
             commands |-> << >>, success |-> None]

\* line 460, before the first update check.  checks counts the calls of
\* check_github_latest_version, sent lists the versions of the update notifications
\* delivered, tried is the last call's version and what send_teams_notification returned
Update0 == [_LAST_TEAMS_NOTIFIED_VERSION |-> None, checks |-> 0, sent |-> << >>,
            tried |-> [version |-> None, sent |-> None]]

\* no GET /api/stats has arrived
NoChart == [table |-> EmptyMap, feature |-> None, backfill_secs |-> 1, cutoff_time |-> 0,
            end_time |-> 0]

\* line 857 and the worker about to test the loop condition of line 1793 for the first
\* time; left counts the remaining one-second waits, started the status commands run
\* before the cycle
Loop0 == [at |-> "head", left |-> 0, started |-> 0]

\* the main thread is at mainpc: "idle" before its initial load (line 2308), "done" once
\* it serves requests (line 2339), as it does from the start under a WSGI server
InitFrom(mainpc, configs, texts, stamps) ==
    /\ cfg \in configs
    /\ clock = 1
    /\ pc = [t \in Threads |-> IF t = Main THEN mainpc ELSE "idle"]
    /\ loc = [t \in Threads |-> Loc0]
    /\ _lock = "free"
    /\ _raw_output = << >>
    /\ _parsed = EmptyMap
    /\ _last_update = NoneInt
    /\ _last_error = None
    /\ _notified_duplicates = {}
    /\ _notified_extratime = {}
    /\ _soldout_last_state = EmptyMap
    /\ _daemon_last_state = None
    /\ _stats_last_state = EmptyMap
    /\ feature_usage = EmptyMap
    /\ ImportEid
    /\ fetches = 0
    /\ requests = 0
    /\ daemon_sent = << >>
    /\ dup_sent = [k \in {} |-> 0]
    /\ extratime_sent = [k \in {} |-> 0]
    /\ soldout_sent = [k \in {} |-> << >>]
    /\ undelivered = [daemon |-> {}, dup |-> {}, ext |-> {}, so |-> {}]
    /\ actor = "init"
    /\ tblIn = [hint |-> FALSE, code |-> NoneInt, port |-> None]
    /\ tblOut = None
    /\ txtIn \in texts
    /\ txtOut = EmptyMap
    /\ tsIn \in stamps
    /\ tsOut = NoneInt
    /\ _shutdown_event = FALSE
    /\ loop = Loop0
    /\ chart = [asked |-> FALSE, in |-> NoChart, out |-> EmptyMap]
    /\ restart = Restart0
    /\ update = Update0

NoStamp == [start |-> StartBad, now |-> Nows[1]]

InitOf(mainpc, configs) == InitFrom(mainpc, configs, { << >> }, { NoStamp })

InitWith(mainpc) == InitOf(mainpc, Configs)

InitAll == InitWith("done")

\* line 2339: app.run, after which requests are served
Serving == pc[Main] = "done"

\* the runs without readers start where the CLM command was not found at import
Init == InitAll /\ _clm_available = PyFalse

snapshotVars == <<_raw_output, _parsed, _last_update, _last_error>>
detectorVars == <<_notified_duplicates, _notified_extratime, _soldout_last_state, _daemon_last_state>>
statsVars == <<_stats_last_state, feature_usage>>
eidVars == <<_eid_cache, _eid_cache_timestamp, _clm_available>>
sentVars == <<daemon_sent, dup_sent, extratime_sent, soldout_sent, undelivered>>
tsVars == <<tsIn, tsOut>>
sideVars == <<_shutdown_event, loop, chart, restart, update>>
tblVars == <<tblIn, tblOut, txtIn, txtOut, tsIn, tsOut, sideVars>>

Goto(t, newpc, newloc) ==
    /\ pc' = [pc EXCEPT ![t] = newpc]
    /\ loc' = [loc EXCEPT ![t] = newloc]
    /\ actor' = t

\* the locals with the record of the last detector call dropped
Fresh(l) == [l EXCEPT !.done = "none", !.emitted = {}, !.seen = {}, !.new = {},
                      !.prev = None, !.current = None, !.hint = FALSE, !.db = "none"]

\* parse_lmstat of every command output, computed once
ParsedTable == [r \in LmstatOutputs |-> parse_lmstat(r)]

parsed_of(t) == ParsedTable[loc[t].out]

\* Time passes.  The values of Nows are days apart and no cycle lasts that long (every
\* external call has a timeout), so the clock moves on only between cycles.
Tick ==
    /\ clock < Len(Nows)
    /\ \A t \in Threads : pc[t] \in {"idle", "done"}
    /\ clock' = clock + 1
    /\ actor' = "clock"
    /\ UNCHANGED <<cfg, pc, loc, _lock, snapshotVars, detectorVars, statsVars, eidVars,
                   fetches, requests, sentVars, tblVars>>

\* refresh_loop 1795-1796, manual_refresh 1936-1937: the status command returns a text
\* (never an empty one: it starts with the command header) or raises, written << >> here
Fetch(t, max) ==
    /\ pc[t] = "idle"
    /\ t = Manual => Serving
    /\ fetches + requests < max
    /\ fetches' = fetches + 1
    /\ \E r \in LmstatOutputs \cup {<< >>} :
         IF r = << >>
         THEN Goto(t, "publish_err", [Loc0 EXCEPT !.failed = TRUE])
         ELSE Goto(t, "publish", [Loc0 EXCEPT !.out = r])
    /\ UNCHANGED <<cfg, clock, _lock, snapshotVars, detectorVars, statsVars, eidVars,
                   requests, sentVars, tblVars>>

\* a publish that assigns the globals without taking _lock
PublishUnlocked(t) ==
    /\ pc[t] = "publish"
    /\ _raw_output' = loc[t].out
    /\ Goto(t, "publishing", loc[t])
    /\ UNCHANGED <<cfg, clock, _lock, _parsed, _last_update, _last_error, detectorVars,
                   statsVars, eidVars, fetches, requests, sentVars, tblVars>>

\* refresh_loop 1797-1798, manual_refresh 1938-1939, initial load 2311-2312: _lock is
\* taken and the first of the four globals assigned
Publish(t) ==
    /\ pc[t] = "publish"
    /\ _lock = "free"
    /\ _lock' = t
    /\ _raw_output' = loc[t].out
    /\ Goto(t, "publishing", loc[t])
    /\ UNCHANGED <<cfg, clock, _parsed, _last_update, _last_error, detectorVars, statsVars,
                   eidVars, fetches, requests, sentVars, tblVars>>

\* every cycle feeds the Recorder, the manual one too
after_publish_stats(t) == "stats"

\* refresh_loop 1804-1808, manual_refresh 1945, initial load 2316: what follows the
\* publish
after_publish(t) == IF t = Worker THEN "stats" ELSE IF t = Main THEN "done" ELSE "daemon"

\* a publish that leaves the last error as it was
PublishDoneKeepingError(t) ==
    /\ pc[t] = "publishing"
    /\ _parsed' = parse_lmstat(loc[t].out)
    /\ _last_update' = clock
    /\ _lock' = "free"
    /\ Goto(t, after_publish(t), loc[t])
    /\ UNCHANGED <<cfg, clock, _raw_output, _last_error, detectorVars, statsVars, eidVars,
                   fetches, requests, sentVars, tblVars>>

\* refresh_loop 1799-1802, manual_refresh 1940-1942, initial load 2313-2315: the other
\* three globals are assigned and _lock is released
PublishDone(t) ==
    /\ pc[t] = "publishing"
    /\ _parsed' = parse_lmstat(loc[t].out)
    /\ _last_update' = clock
    /\ _last_error' = None
    /\ _lock' = "free"
    /\ Goto(t, after_publish(t), loc[t])
    /\ UNCHANGED <<cfg, clock, _raw_output, detectorVars, statsVars, eidVars, fetches,
                   requests, sentVars, tblVars>>

\* refresh_loop 1833-1835, manual_refresh 1969-1971, initial load 2317-2319: with _lock
PublishError(t) ==
    /\ pc[t] = "publish_err"
    /\ _lock = "free"
    /\ _last_error' = "error"
    /\ Goto(t, IF t = Main THEN "done" ELSE "daemon", loc[t])
    /\ UNCHANGED <<cfg, clock, _lock, _raw_output, _parsed, _last_update, detectorVars,
                   statsVars, eidVars, fetches, requests, sentVars, tblVars>>

\* refresh_loop 1805-1808: store_feature_stats(parsed), exceptions logged
StoreStats(t, outcomes) ==
    /\ pc[t] = "stats"
    /\ \E db \in outcomes :
         /\ _stats_last_state' =
              IF db = "connect_error" THEN _stats_last_state
              ELSE StatsTracked(parsed_of(t), _stats_last_state)
         /\ feature_usage' =
              IF db = "ok"
              THEN StatsRows(parsed_of(t), _stats_last_state, feature_usage, clock)
              ELSE feature_usage
         /\ Goto(t, "daemon",
                 [loc[t] EXCEPT !.done = "stats", !.db = db, !.seen = _stats_last_state])
    /\ UNCHANGED <<cfg, clock, _lock, snapshotVars, detectorVars, eidVars, fetches, requests,
                   sentVars, tblVars>>

\* a hint taken from the output alone, whether or not the command raised
hint_of_output(t) == _lmstat_output_indicates_ok(loc[t].out)

\* the hint a cycle passes to check_daemon_state: lines 1811-1813 and 1839
hint_of(t) == IF loc[t].failed THEN FALSE ELSE _lmstat_output_indicates_ok(loc[t].out)

\* a cycle that ends with the daemon detector, its content detectors left out
after_daemon_end(t) == "idle"

\* where a cycle goes after check_daemon_state
after_daemon(t) == IF loc[t].failed THEN "idle" ELSE "dup"

\* check_daemon_state 1462-1510: the early return, the two probes, the decision, and
\* the read of _daemon_last_state
DaemonRead(t) ==
    /\ pc[t] = "daemon"
    /\ IF ~(TEAMS_ENABLED /\ TEAMS_NOTIFY_DAEMON)
       THEN Goto(t, after_daemon(t), Fresh(loc[t]))
       ELSE \E code \in ServiceCodes, port_ok \in {PyTrue, PyFalse} :
              Goto(t, "daemon_w",
                   [Fresh(loc[t]) EXCEPT
                      !.hint = hint_of(t),
                      !.current = DaemonDecision(hint_of(t), service_running_of(code), port_ok),
                      !.prev = _daemon_last_state])
    /\ UNCHANGED <<cfg, clock, _lock, snapshotVars, detectorVars, statsVars, eidVars,
                   fetches, requests, sentVars, tblVars>>

\* send_teams_notification 462-543: the boolean it returns, given whether the webhook
\* answers with a 2xx status; it returns False on every failure and raises nothing
send_teams_notification(webhook_ok) == TEAMS_ENABLED /\ webhook_ok

\* the webhook in a run where it always answers, and in one where it may refuse
SinkUp == {TRUE}
SinkResults == BOOLEAN

\* the notifications of one detector call that the webhook refused, added to the record
Refused(log, detector, notes, webhook_ok) ==
    IF send_teams_notification(webhook_ok)
    THEN log
    ELSE [log EXCEPT ![detector] = @ \cup notes]

Range(s) == { s[i] : i \in 1..Len(s) }

\* check_daemon_state 1511-1568: the write of _daemon_last_state and the notification
DaemonWrite(t, sinks) ==
    /\ pc[t] = "daemon_w"
    /\ \E webhook_ok \in sinks :
         undelivered' = Refused(undelivered, "daemon",
                                Range(DaemonNotes(loc[t].prev, loc[t].current)), webhook_ok)
    /\ _daemon_last_state' = loc[t].current
    /\ daemon_sent' = Last2(daemon_sent \o DaemonNotes(loc[t].prev, loc[t].current))
    /\ Goto(t, after_daemon(t),
            [loc[t] EXCEPT !.done = "daemon",
                           !.emitted = DaemonNotes(loc[t].prev, loc[t].current)])
    /\ UNCHANGED <<cfg, clock, _lock, snapshotVars, _notified_duplicates, _notified_extratime,
                   _soldout_last_state, statsVars, eidVars, fetches, requests, dup_sent,
                   extratime_sent, soldout_sent, tblVars>>

\* a count of notifications per key, counted up to 2
Bump(cnt, keys) ==
    [k \in DOMAIN cnt \cup keys |->
        IF k \in keys
        THEN (IF k \in DOMAIN cnt /\ cnt[k] >= 1 THEN 2 ELSE 1)
        ELSE cnt[k]]

\* check_duplicates 1737-1760: the early return, the scan, the membership tests
DupRead(t) ==
    /\ pc[t] = "dup"
    /\ IF ~TEAMS_ENABLED \/ ~TEAMS_NOTIFY_DUPLICATE_CHECKER
       THEN Goto(t, "ext", Fresh(loc[t]))
       ELSE Goto(t, "dup_w",
                 [Fresh(loc[t]) EXCEPT
                    !.seen = _notified_duplicates,
                    !.new = NewDuplicates(parsed_of(t), _notified_duplicates)])
    /\ UNCHANGED <<cfg, clock, _lock, snapshotVars, detectorVars, statsVars, eidVars,
                   fetches, requests, sentVars, tblVars>>

\* check_duplicates 1761-1787: the keys are added and their notifications sent
DupWrite(t, sinks) ==
    /\ pc[t] = "dup_w"
    /\ \E webhook_ok \in sinks :
         undelivered' = Refused(undelivered, "dup", loc[t].new, webhook_ok)
    /\ _notified_duplicates' = _notified_duplicates \cup loc[t].new
    /\ dup_sent' = Bump(dup_sent, loc[t].new)
    /\ Goto(t, "ext",
            [loc[t] EXCEPT !.done = "dup",
                           !.emitted = { DuplicateNote(parsed_of(t), k) : k \in loc[t].new }])
    /\ UNCHANGED <<cfg, clock, _lock, snapshotVars, _notified_extratime, _soldout_last_state,
                   _daemon_last_state, statsVars, eidVars, fetches, requests, daemon_sent,
                   extratime_sent, soldout_sent, tblVars>>

\* check_extratime 1622-1646: the early return, the scan at time.time(), the
\* membership tests
ExtratimeRead(t) ==
    /\ pc[t] = "ext"
    /\ IF ~(TEAMS_ENABLED /\ TEAMS_NOTIFY_EXTRATIME)
       THEN Goto(t, "so", Fresh(loc[t]))
       ELSE Goto(t, "ext_w",
                 [Fresh(loc[t]) EXCEPT
                    !.seen = _notified_extratime,
                    !.new = NewExtratime(parsed_of(t), Nows[clock], _notified_extratime)])
    /\ UNCHANGED <<cfg, clock, _lock, snapshotVars, detectorVars, statsVars, eidVars,
                   fetches, requests, sentVars, tblVars>>

\* lines 1668-1669 with the add made to depend on what the send returned
notified_if_delivered(keys, delivered) == IF delivered THEN keys ELSE {}

\* lines 1668-1669: the add follows the send and ignores what it returned
notified_after_send(keys, delivered) == keys

\* check_extratime 1647-1672: the notifications are sent and the keys added
ExtratimeWrite(t, sinks) ==
    /\ pc[t] = "ext_w"
    /\ \E webhook_ok \in sinks :
         /\ undelivered' = Refused(undelivered, "ext", loc[t].new, webhook_ok)
         /\ _notified_extratime' =
               _notified_extratime
                 \cup notified_after_send(loc[t].new, send_teams_notification(webhook_ok))
    /\ extratime_sent' = Bump(extratime_sent, loc[t].new)
    /\ Goto(t, "so",
            [loc[t] EXCEPT !.done = "ext",
                           !.emitted = { ExtratimeNote(parsed_of(t), Nows[clock], k) :
                                           k \in loc[t].new }])
    /\ UNCHANGED <<cfg, clock, _lock, snapshotVars, _notified_duplicates, _soldout_last_state,
                   _daemon_last_state, statsVars, eidVars, fetches, requests, daemon_sent, dup_sent,
                   soldout_sent, tblVars>>

\* check_soldout 1678-1701: the early return, the scan, the reads of _soldout_last_state
SoldoutRead(t) ==
    /\ pc[t] = "so"
    /\ IF ~(TEAMS_ENABLED /\ TEAMS_NOTIFY_SOLDOUT)
       THEN Goto(t, "idle", Fresh(loc[t]))
       ELSE Goto(t, "so_w",
                 [Fresh(loc[t]) EXCEPT
                    !.seen = _soldout_last_state,
                    !.new = SoldoutChanges(parsed_of(t), _soldout_last_state)])
    /\ UNCHANGED <<cfg, clock, _lock, snapshotVars, detectorVars, statsVars, eidVars,
                   fetches, requests, sentVars, tblVars>>

\* the sold-out notifications sent per feature, the last two kept
SoldoutSent(log, changes) ==
    [f \in DOMAIN log \cup { c.feature : c \in changes } |->
        IF \E c \in changes : c.feature = f
        THEN Last2(Append(IF f \in DOMAIN log THEN log[f] ELSE << >>,
                          (CHOOSE c \in changes : c.feature = f).is_soldout))
        ELSE log[f]]

\* check_soldout 1702-1731: the values are stored and the notifications sent
SoldoutWrite(t, sinks) ==
    /\ pc[t] = "so_w"
    /\ \E webhook_ok \in sinks :
         undelivered' = Refused(undelivered, "so", loc[t].new, webhook_ok)
    /\ _soldout_last_state' = Put(_soldout_last_state, SoldoutStored(parsed_of(t)))
    /\ soldout_sent' = SoldoutSent(soldout_sent, loc[t].new)
    /\ Goto(t, "idle", [loc[t] EXCEPT !.done = "so", !.emitted = loc[t].new])
    /\ UNCHANGED <<cfg, clock, _lock, snapshotVars, _notified_duplicates, _notified_extratime,
                   _daemon_last_state, statsVars, eidVars, fetches, requests, daemon_sent, dup_sent,
                   extratime_sent, tblVars>>

-----------------------------------------------------------------------------
(* refresh_eid_cache, run by the thread that called it                      *)

\* where refresh_eid_cache returns to
after_refresh(t) == IF t = Status THEN "st_resp" ELSE "idle"

\* line 598: try_clm_query_features returns a text, or None or '' (written << >>)
ClmCommand(t) ==
    /\ pc[t] = "clm"
    /\ \E r \in ClmOutputs \cup {<< >>} :
         IF r = << >>
         THEN Goto(t, "eid_fail", loc[t])
         ELSE Goto(t, "eid_cache", [loc[t] EXCEPT !.out = r])
    /\ UNCHANGED <<cfg, clock, _lock, snapshotVars, detectorVars, statsVars, eidVars,
                   fetches, requests, sentVars, tblVars>>

\* line 600
EidWriteCache(t) ==
    /\ pc[t] = "eid_cache"
    /\ _eid_cache' = parse_eid_info(loc[t].out)
    /\ Goto(t, "eid_ts", loc[t])
    /\ UNCHANGED <<cfg, clock, _lock, snapshotVars, detectorVars, statsVars,
                   _eid_cache_timestamp, _clm_available, fetches, requests, sentVars, tblVars>>

\* line 601
EidWriteTimestamp(t) ==
    /\ pc[t] = "eid_ts"
    /\ _eid_cache_timestamp' = Timestamp(Nows[clock])
    /\ Goto(t, "eid_flag", loc[t])
    /\ UNCHANGED <<cfg, clock, _lock, snapshotVars, detectorVars, statsVars,
                   _eid_cache, _clm_available, fetches, requests, sentVars, tblVars>>

\* line 602
EidWriteAvailable(t) ==
    /\ pc[t] = "eid_flag"
    /\ _clm_available' = PyTrue
    /\ Goto(t, after_refresh(t), [loc[t] EXCEPT !.out = << >>])
    /\ UNCHANGED <<cfg, clock, _lock, snapshotVars, detectorVars, statsVars,
                   _eid_cache, _eid_cache_timestamp, fetches, requests, sentVars, tblVars>>

\* a failure that also drops what was cached
EidWriteUnavailableClearing(t) ==
    /\ pc[t] = "eid_fail"
    /\ _clm_available' = PyFalse
    /\ _eid_cache' = EmptyMap
    /\ _eid_cache_timestamp' = 0
    /\ Goto(t, after_refresh(t), loc[t])
    /\ UNCHANGED <<cfg, clock, _lock, snapshotVars, detectorVars, statsVars,
                   fetches, requests, sentVars, tblVars>>

\* lines 607 and 610
EidWriteUnavailable(t) ==
    /\ pc[t] = "eid_fail"
    /\ _clm_available' = PyFalse
    /\ Goto(t, after_refresh(t), loc[t])
    /\ UNCHANGED <<cfg, clock, _lock, snapshotVars, detectorVars, statsVars,
                   _eid_cache, _eid_cache_timestamp, fetches, requests, sentVars, tblVars>>

\* refresh_eid_route 2209: a POST /refresh-eid arrives
EidRouteStart ==
    /\ pc[EidRoute] = "idle"
    /\ Serving
    /\ fetches + requests < MaxOps
    /\ requests' = requests + 1
    /\ Goto(EidRoute, "clm", Loc0)
    /\ UNCHANGED <<cfg, clock, _lock, snapshotVars, detectorVars, statsVars, eidVars,
                   fetches, sentVars, tblVars>>

-----------------------------------------------------------------------------
(* status                                                                   *)

\* lines 1906-1916
Filtered(parsed) ==
    [f \in { g \in DOMAIN parsed :
               /\ ~(HIDE_MAINT /\ has_maint(lower(g)))
               /\ ~(\E h \in HIDE_LIST : Substr(h, lower(g))) } |-> parsed[f]]

\* line 1904; of a response, the fields ok, licenses and eid_info are kept
ErrorResponse == [ok |-> FALSE, licenses |-> EmptyMap, eid_info |-> EmptyMap]

\* lines 1921-1926, with the value get_eid_info returned
OkResponse(eid_data) ==
    [ok |-> TRUE, licenses |-> Filtered(_parsed),
     eid_info |-> IF _clm_available = PyTrue THEN eid_data ELSE EmptyMap]

\* line 1902: a GET /status arrives and takes _lock
StatusEnter(max) ==
    /\ pc[Status] = "idle"
    /\ Serving
    /\ _lock = "free"
    /\ _lock' = Status
    /\ fetches + requests < max
    /\ requests' = requests + 1
    /\ Goto(Status, "st_locked", Loc0)
    /\ UNCHANGED <<cfg, clock, snapshotVars, detectorVars, statsVars, eidVars,
                   fetches, sentVars, tblVars>>

\* a reader that resets the error it reports
StatusBodyClearingError ==
    /\ pc[Status] = "st_locked"
    /\ IF _last_error # None
       THEN /\ Goto(Status, "idle", [Loc0 EXCEPT !.done = "status", !.emitted = {ErrorResponse}])
            /\ _lock' = "free"
            /\ _last_error' = None
       ELSE /\ IF _clm_available = PyTrue /\ EidStale(Nows[clock])
               THEN /\ Goto(Status, "clm", Loc0)
                    /\ UNCHANGED _lock
               ELSE /\ Goto(Status, "idle",
                            [Loc0 EXCEPT !.done = "status", !.emitted = {OkResponse(_eid_cache)}])
                    /\ _lock' = "free"
            /\ UNCHANGED _last_error
    /\ UNCHANGED <<cfg, clock, _raw_output, _parsed, _last_update, detectorVars, statsVars,
                   eidVars, fetches, requests, sentVars, tblVars>>

\* lines 1903-1926 up to the call of refresh_eid_cache in get_eid_info, or to the return
StatusBody ==
    /\ pc[Status] = "st_locked"
    /\ IF _last_error # None
       THEN /\ Goto(Status, "idle", [Loc0 EXCEPT !.done = "status", !.emitted = {ErrorResponse}])
            /\ _lock' = "free"
       ELSE IF _clm_available = PyTrue /\ EidStale(Nows[clock])
       THEN /\ Goto(Status, "clm", Loc0)
            /\ UNCHANGED _lock
       ELSE /\ Goto(Status, "idle",
                    [Loc0 EXCEPT !.done = "status", !.emitted = {OkResponse(_eid_cache)}])
            /\ _lock' = "free"
    /\ UNCHANGED <<cfg, clock, snapshotVars, detectorVars, statsVars, eidVars,
                   fetches, requests, sentVars, tblVars>>

\* lines 1919-1926 after refresh_eid_cache returned: the response, and _lock released
StatusRespond ==
    /\ pc[Status] = "st_resp"
    /\ Goto(Status, "idle", [Loc0 EXCEPT !.done = "status", !.emitted = {OkResponse(_eid_cache)}])
    /\ _lock' = "free"
    /\ UNCHANGED <<cfg, clock, snapshotVars, detectorVars, statsVars, eidVars,
                   fetches, requests, sentVars, tblVars>>

-----------------------------------------------------------------------------
(* index and eids_page                                                      *)

\* lines 1857-1897: a GET / arrives; shown stands for SHOW_EID_INFO or is_admin_mode
Index ==
    /\ pc[Browser] = "idle"
    /\ Serving
    /\ fetches + requests < MaxOps
    /\ requests' = requests + 1
    /\ \E shown \in BOOLEAN :
         Goto(Browser, "idle",
              [Loc0 EXCEPT !.done = "index",
                           !.emitted = {[show_eid_info |-> shown /\ _clm_available # PyFalse]}])
    /\ UNCHANGED <<cfg, clock, _lock, snapshotVars, detectorVars, statsVars, eidVars,
                   fetches, sentVars, tblVars>>

\* lines 2016-2037: a GET /eids arrives; it is redirected unless the request is an
\* administrator's and _clm_available is not False
EidsPageCheck ==
    /\ pc[Browser] = "idle"
    /\ Serving
    /\ fetches + requests < MaxOps
    /\ requests' = requests + 1
    /\ \E admin_mode \in BOOLEAN :
         IF admin_mode /\ _clm_available # PyFalse
         THEN Goto(Browser, "ep_lock", Loc0)
         ELSE Goto(Browser, "idle", [Loc0 EXCEPT !.done = "redirect"])
    /\ UNCHANGED <<cfg, clock, _lock, snapshotVars, detectorVars, statsVars, eidVars,
                   fetches, sentVars, tblVars>>

\* lines 2040-2042 and the rendering of what was copied: the with block takes _lock,
\* copies _eid_cache and _parsed, and releases it
EidsPageCopy ==
    /\ pc[Browser] = "ep_lock"
    /\ _lock = "free"
    /\ Goto(Browser, "idle",
            [Loc0 EXCEPT !.done = "eids_page",
                         !.emitted = {[eid_feature_map_raw |-> _eid_cache,
                                       licenses_snapshot |-> _parsed]}])
    /\ UNCHANGED <<cfg, clock, _lock, snapshotVars, detectorVars, statsVars, eidVars,
                   fetches, requests, sentVars, tblVars>>

-----------------------------------------------------------------------------

CycleStep(t, max) ==
    \/ Fetch(t, max)
    \/ Publish(t)
    \/ PublishDone(t)
    \/ PublishError(t)
    \/ DaemonRead(t)
    \/ DaemonWrite(t, SinkUp)
    \/ DupRead(t)
    \/ DupWrite(t, SinkUp)
    \/ ExtratimeRead(t)
    \/ ExtratimeWrite(t, SinkUp)
    \/ SoldoutRead(t)
    \/ SoldoutWrite(t, SinkUp)

EidStep(t) ==
    \/ ClmCommand(t)
    \/ EidWriteCache(t)
    \/ EidWriteTimestamp(t)
    \/ EidWriteAvailable(t)
    \/ EidWriteUnavailable(t)

\* worker, manual refresh, status reader and entitlement refresh together
NextFlows ==
    \/ Tick
    \/ \E t \in Cyclers : CycleStep(t, MaxOps)
    \/ \E t \in Cyclers : StoreStats(t, {"ok"})
    \/ StatusEnter(MaxOps)
    \/ StatusBody
    \/ StatusRespond
    \/ EidRouteStart
    \/ \E t \in {Status, EidRoute} : EidStep(t)

\* the readers of the entitlement cache and its refreshes, without the refresh cycle
NextEid ==
    \/ Tick
    \/ StatusEnter(MaxOps)
    \/ StatusBody
    \/ StatusRespond
    \/ EidRouteStart
    \/ \E t \in {Status, EidRoute} : EidStep(t)
    \/ Index
    \/ EidsPageCheck
    \/ EidsPageCopy

InitEid == InitAll

SpecEid == InitEid /\ [][NextEid]_vars

InitFlows == InitAll

SpecFlows == InitFlows /\ [][NextFlows]_vars

Next ==
    \/ Tick
    \/ \E t \in Cyclers :
         \/ Fetch(t, MaxFetches)
         \/ Publish(t)
         \/ PublishDone(t)
         \/ PublishError(t)
         \/ DaemonRead(t)
         \/ DaemonWrite(t, SinkUp)
         \/ DupRead(t)
         \/ DupWrite(t, SinkUp)
         \/ ExtratimeRead(t)
         \/ ExtratimeWrite(t, SinkUp)
         \/ SoldoutRead(t)
         \/ SoldoutWrite(t, SinkUp)
    \/ \E t \in Cyclers : StoreStats(t, DbOutcomes)

Spec == Init /\ [][Next]_vars

-----------------------------------------------------------------------------
(* check_daemon_state called on its own, one call after the other, with every *)
(* outcome of the two probes: get_service_state returning a code or None, and *)
(* the port probe returning True or False or leaving port_ok at None          *)

\* check_daemon_state 1462-1568 in one step
CheckDaemonStateOn(inputs) ==
    /\ TEAMS_ENABLED /\ TEAMS_NOTIFY_DAEMON
    /\ \E in \in inputs :
         /\ tblIn' = in
         /\ tblOut' = DaemonDecision(in.hint, service_running_of(in.code), in.port)
    /\ _daemon_last_state' = tblOut'
    /\ daemon_sent' = Last2(daemon_sent \o DaemonNotes(_daemon_last_state, tblOut'))
    /\ loc' = [loc EXCEPT ![Worker] =
                  [Loc0 EXCEPT !.prev = _daemon_last_state,
                               !.current = tblOut',
                               !.done = "daemon",
                               !.emitted = DaemonNotes(_daemon_last_state, tblOut')]]
    /\ actor' = Worker
    /\ UNCHANGED <<cfg, clock, pc, _lock, snapshotVars, _notified_duplicates,
                   _notified_extratime, _soldout_last_state, statsVars, eidVars, fetches,
                   requests, dup_sent, extratime_sent, soldout_sent, undelivered, txtIn, txtOut,
                   tsVars, sideVars>>

CheckDaemonState == CheckDaemonStateOn(TblInputs)

InitTable == Init /\ TEAMS_ENABLED /\ TEAMS_NOTIFY_DAEMON

NextTable == CheckDaemonState

SpecTable == InitTable /\ [][NextTable]_vars

-----------------------------------------------------------------------------
(* _lmstat_output_indicates_ok called on its own on each text of at most     *)
(* MaxHintLines lines, and check_daemon_state called with its result         *)

HintLines == { LMessage(s) : s \in Messages } \cup { LFeature("CAD", 2, 1) }

HintTexts == UNION { [1..n -> HintLines] : n \in 0..MaxHintLines }

\* line 1811: lmstat_ok = _lmstat_output_indicates_ok(out)
LmstatOk ==
    /\ loc[Worker].done = "none"
    /\ tblIn' = [tblIn EXCEPT !.hint = _lmstat_output_indicates_ok(txtIn)]
    /\ loc' = [loc EXCEPT ![Worker] =
                  [Loc0 EXCEPT !.done = "hint", !.hint = _lmstat_output_indicates_ok(txtIn)]]
    /\ actor' = Worker
    /\ UNCHANGED <<cfg, clock, pc, _lock, snapshotVars, detectorVars, statsVars, eidVars,
                   fetches, requests, sentVars, tblOut, txtIn, txtOut, tsVars, sideVars>>

\* line 1813: check_daemon_state(bool(lmstat_ok)), with every outcome of the probes
CheckDaemonStateOfHint ==
    /\ loc[Worker].done = "hint"
    /\ CheckDaemonStateOn({ in \in TblInputs : in.hint = loc[Worker].hint })

InitHint ==
    /\ InitFrom("done", Configs, HintTexts, { NoStamp })
    /\ TEAMS_ENABLED /\ TEAMS_NOTIFY_DAEMON
    /\ _clm_available = PyFalse

NextHint == LmstatOk \/ CheckDaemonStateOfHint

SpecHint == InitHint /\ [][NextHint]_vars

-----------------------------------------------------------------------------
(* _parse_start_timestamp called on its own, on start strings around the     *)
(* ends of months and years, at several values of datetime.now()             *)

StartMonths == {1, 2, 11, 12, 13}
StartDays == {1, 17, 20, 21, 29, 31, 40}
StartTimes == { <<9, 0>>, <<9, 1>>, <<12, 34>>, <<99, 99>> }

StartStrings ==
    { StartWd(mo, d, t[1], t[2]) : mo \in StartMonths, d \in StartDays, t \in StartTimes }
      \cup
    { StartMd(mo, d, t[1], t[2]) : mo \in StartMonths, d \in StartDays, t \in StartTimes }
      \cup
    { StartBad, StartFull(2025, 11, 17, 12, 34), StartFull(2025, 2, 29, 12, 34) }

\* datetime.now(): a day in November, the first day of a year, and two days of a leap
\* year before its 29th of February
StartNows ==
    { Date(2025, 11, 18, 9, 0), Date(2025, 1, 1, 9, 0), Date(2024, 1, 15, 9, 0),
      Date(2024, 2, 27, 9, 0) }

\* _parse_start_timestamp 1570-1615 in one step
ParseStartTimestamp ==
    /\ loc[Worker].done = "none"
    /\ tsOut' = _parse_start_timestamp(tsIn.start, tsIn.now)
    /\ loc' = [loc EXCEPT ![Worker] = [Loc0 EXCEPT !.done = "start"]]
    /\ actor' = Worker
    /\ UNCHANGED <<cfg, clock, pc, _lock, snapshotVars, detectorVars, statsVars, eidVars,
                   fetches, requests, sentVars, tblIn, tblOut, txtIn, txtOut, tsIn,
                   sideVars>>

InitStart ==
    /\ InitFrom("done", Configs, { << >> }, [start : StartStrings, now : StartNows])
    /\ ~TEAMS_ENABLED
    /\ _clm_available = PyFalse

NextStart == ParseStartTimestamp

SpecStart == InitStart /\ [][NextStart]_vars

-----------------------------------------------------------------------------
(* parse_lmstat called on its own on each text of at most MaxLines lines,    *)
(* check_duplicates called on its result, and the same text parsed again     *)

\* 'Fri 11/17 08:00'
FriStart == StartWd(11, 17, 8, 0)

ParseLines ==
    { LFeature("CAD", 5, 5), LFeature("CAD", 3, 1), LFeature("Viewer", 1, 0),
      LNamed("CAD"), LExpiry("1-jan-2026"),
      LUser("alice", "host1", "1.0", FriStart),
      LQuotedUser("alice", "host1", "1.0", FriStart),
      LOther(FALSE) }

ParseTexts == UNION { [1..n -> ParseLines] : n \in 0..MaxLines }

\* parse_lmstat 1351-1405 in one step
ParseLmstat ==
    /\ loc[Worker].done \in {"none", "dup", "other", "ext"}
    /\ txtOut' = parse_lmstat(txtIn)
    /\ loc' = [loc EXCEPT ![Worker] = [Loc0 EXCEPT !.done = "parse"]]
    /\ actor' = Worker
    /\ UNCHANGED <<cfg, clock, pc, _lock, snapshotVars, detectorVars, statsVars, eidVars,
                   fetches, requests, sentVars, tblIn, tblOut, txtIn, tsVars, sideVars>>

\* check_duplicates 1737-1787 in one step, on the result of the last parse
CheckDuplicates ==
    /\ TEAMS_ENABLED /\ TEAMS_NOTIFY_DUPLICATE_CHECKER
    /\ loc[Worker].done = "parse"
    /\ _notified_duplicates' = _notified_duplicates \cup NewDuplicates(txtOut, _notified_duplicates)
    /\ dup_sent' = Bump(dup_sent, NewDuplicates(txtOut, _notified_duplicates))
    /\ loc' = [loc EXCEPT ![Worker] =
                  [Loc0 EXCEPT !.seen = _notified_duplicates,
                               !.new = NewDuplicates(txtOut, _notified_duplicates),
                               !.done = "dup",
                               !.emitted = { DuplicateNote(txtOut, k) :
                                               k \in NewDuplicates(txtOut, _notified_duplicates) }]]
    /\ actor' = Worker
    /\ UNCHANGED <<cfg, clock, pc, _lock, snapshotVars, _notified_extratime,
                   _soldout_last_state, _daemon_last_state, statsVars, eidVars, fetches,
                   requests, daemon_sent, extratime_sent, soldout_sent, undelivered, tblVars>>

\* parse_lmstat called on the output of a cycle, once, between two parses of txtIn
ParseOther ==
    /\ loc[Worker].done = "dup"
    /\ _raw_output = << >>
    /\ \E text \in LmstatOutputs :
         /\ _raw_output' = text
         /\ _parsed' = parse_lmstat(text)
    /\ loc' = [loc EXCEPT ![Worker] = [Loc0 EXCEPT !.done = "other"]]
    /\ actor' = Worker
    /\ UNCHANGED <<cfg, clock, pc, _lock, _last_update, _last_error, detectorVars, statsVars,
                   eidVars, fetches, requests, sentVars, tblVars>>

InitParse ==
    /\ InitFrom("done", Configs, ParseTexts, { NoStamp })
    /\ TEAMS_ENABLED /\ TEAMS_NOTIFY_DUPLICATE_CHECKER
    /\ _clm_available = PyFalse

NextParse == ParseLmstat \/ CheckDuplicates \/ ParseOther

SpecParse == InitParse /\ [][NextParse]_vars

-----------------------------------------------------------------------------
(* The snapshot store: its three writers (the worker, a manual refresh, the  *)
(* initial load of the main thread) and a reader, with Teams notifications   *)
(* disabled, so that every detector returns at once                          *)

\* app.py run as a script, or imported by a server
InitStore ==
    /\ InitWith("idle") \/ InitWith("done")
    /\ ~TEAMS_ENABLED
    /\ _clm_available = PyFalse

\* a step that a thread which has started takes sooner or later
StoreProgress ==
    \/ \E t \in Loaders : Publish(t) \/ PublishDone(t) \/ PublishError(t)
    \/ StoreStats(Worker, {"ok"})
    \/ \E t \in Cyclers : DaemonRead(t) \/ DupRead(t) \/ ExtratimeRead(t) \/ SoldoutRead(t)
    \/ StatusBody

NextStore ==
    \/ \E t \in Loaders : Fetch(t, MaxStoreOps)
    \/ StatusEnter(MaxStoreOps)
    \/ StoreProgress

\* no thread stops for ever in the middle of its function: every external call has a
\* timeout, and _lock is held for a few assignments only
SpecStore == InitStore /\ [][NextStore]_vars /\ WF_vars(StoreProgress)

-----------------------------------------------------------------------------
(* The worker over several lives of the process: a restart runs the module   *)
(* again, so every global is back at its initial value, and the database     *)
(* file is the one the previous process left                                 *)

\* the process ends and is started again: lines 586-592 and 1410-1426 run anew
Restart ==
    /\ pc' = [t \in Threads |-> IF t = Main THEN "done" ELSE "idle"]
    /\ loc' = [t \in Threads |-> Loc0]
    /\ _lock' = "free"
    /\ _raw_output' = << >>
    /\ _parsed' = EmptyMap
    /\ _last_update' = NoneInt
    /\ _last_error' = None
    /\ _notified_duplicates' = {}
    /\ _notified_extratime' = {}
    /\ _soldout_last_state' = EmptyMap
    /\ _daemon_last_state' = None
    /\ _stats_last_state' = EmptyMap
    /\ _eid_cache' = EmptyMap
    /\ _eid_cache_timestamp' = 0
    /\ _clm_available' = PyFalse
    /\ actor' = "init"
    /\ UNCHANGED <<cfg, clock, feature_usage, fetches, requests, sentVars, tblVars>>

InitRecorder == Init

NextRecorder ==
    \/ Tick
    \/ Restart
    \/ CycleStep(Worker, MaxFetches)
    \/ StoreStats(Worker, DbOutcomes)

SpecRecorder == InitRecorder /\ [][NextRecorder]_vars

-----------------------------------------------------------------------------
(* The worker alone, its cycles one after the other, with a webhook that may *)
(* refuse any notification                                                   *)

\* every detector enabled, as in a config.ini with the four notify keys set to true
SinkConfigs ==
    { Config(TRUE, TRUE, TRUE, TRUE, TRUE, TRUE, {}, {}),
      Config(TRUE, TRUE, TRUE, TRUE, TRUE, FALSE, {"viewer"}, {}) }

InitSink == InitOf("done", SinkConfigs) /\ _clm_available = PyFalse

NextSink ==
    \/ Tick
    \/ Fetch(Worker, MaxSinkFetches)
    \/ Publish(Worker)
    \/ PublishDone(Worker)
    \/ PublishError(Worker)
    \/ StoreStats(Worker, {"ok"})
    \/ DaemonRead(Worker)
    \/ DaemonWrite(Worker, SinkResults)
    \/ DupRead(Worker)
    \/ DupWrite(Worker, SinkResults)
    \/ ExtratimeRead(Worker)
    \/ ExtratimeWrite(Worker, SinkResults)
    \/ SoldoutRead(Worker)
    \/ SoldoutWrite(Worker, SinkResults)

SpecSink == InitSink /\ [][NextSink]_vars

-----------------------------------------------------------------------------
(* refresh_loop around its cycles: the loop condition, the one-second waits  *)
(* and shutdown_app setting the event                                        *)

MaxLoopFetches == 2
SleepSeconds == 2       \* REFRESH_MIN * 60, line 1844

loopFrame == <<cfg, clock, pc, loc, _lock, snapshotVars, detectorVars, statsVars, eidVars,
               fetches, requests, sentVars, tblIn, tblOut, txtIn, txtOut, tsVars>>

\* line 1011: shutdown_app sets the event
SetShutdown ==
    /\ ~_shutdown_event
    /\ _shutdown_event' = TRUE
    /\ actor' = "shutdown"
    /\ UNCHANGED <<loopFrame, loop, chart, restart, update>>

\* a loop that goes on whatever the event says
LoopTestIgnoring ==
    /\ loop.at = "head"
    /\ fetches < MaxLoopFetches
    /\ loop' = [loop EXCEPT !.at = "cycle", !.started = fetches]
    /\ actor' = Worker
    /\ UNCHANGED <<loopFrame, _shutdown_event, chart, restart, update>>

\* line 1793: while not _shutdown_event.is_set()
LoopTest ==
    /\ loop.at = "head"
    /\ IF _shutdown_event
       THEN loop' = [loop EXCEPT !.at = "exited"]
       ELSE /\ fetches < MaxLoopFetches
            /\ loop' = [loop EXCEPT !.at = "cycle", !.started = fetches]
    /\ actor' = Worker
    /\ UNCHANGED <<loopFrame, _shutdown_event, chart, restart, update>>

\* line 1795: the status command of the cycle that the loop test let in
LoopFetch ==
    /\ loop.at = "cycle"
    /\ fetches = loop.started
    /\ Fetch(Worker, MaxLoopFetches)

\* lines 1796-1841: the rest of the cycle, with the notifications switched off
LoopCycle ==
    /\ loop.at = "cycle"
    /\ \/ Publish(Worker)
       \/ PublishDone(Worker)
       \/ PublishError(Worker)
       \/ StoreStats(Worker, {"ok"})
       \/ DaemonRead(Worker)
       \/ DupRead(Worker)
       \/ ExtratimeRead(Worker)
       \/ SoldoutRead(Worker)

\* line 1844: the cycle is over and the wait begins
LoopWait ==
    /\ loop.at = "cycle"
    /\ pc[Worker] = "idle"
    /\ fetches > loop.started
    /\ loop' = [loop EXCEPT !.at = "sleep", !.left = SleepSeconds]
    /\ actor' = Worker
    /\ UNCHANGED <<loopFrame, _shutdown_event, chart, restart, update>>

\* lines 1844-1847: one turn of the wait, which ends when the turns are used up or the
\* event is found set, and sleeps a second otherwise
LoopSleep ==
    /\ loop.at = "sleep"
    /\ loop' = IF loop.left = 0 \/ _shutdown_event
               THEN [loop EXCEPT !.at = "head", !.left = 0]
               ELSE [loop EXCEPT !.left = loop.left - 1]
    /\ actor' = Worker
    /\ UNCHANGED <<loopFrame, _shutdown_event, chart, restart, update>>

WorkerLoop == LoopTest \/ LoopFetch \/ LoopCycle \/ LoopWait \/ LoopSleep

NextLoop == SetShutdown \/ WorkerLoop

InitLoop == InitWith("done") /\ ~TEAMS_ENABLED /\ _clm_available = PyFalse

\* the worker thread keeps being scheduled: the commands it runs have timeouts and in
\* these runs nothing else takes _lock
SpecLoop == InitLoop /\ [][NextLoop]_vars /\ WF_vars(WorkerLoop)

-----------------------------------------------------------------------------
(* api_stats on tables of a few rows; times are in units of the smallest     *)
(* refresh interval                                                          *)

MaxPoints == 3
ChartTimes == 0..5

Row(ts, used) == [timestamp |-> ts, used |-> used, available |-> 3]

\* the rows of one feature in insertion order: store_feature_stats stamps them with
\* int(time.time()), so their timestamps never decrease; the n-th row carries used = n
ChartRows ==
    UNION { { [i \in 1..n |-> Row(t[i], i)] :
                t \in { u \in [1..n -> ChartTimes] :
                           \A i \in 1..(n - 1) : u[i] <= u[i + 1] } } : n \in 0..MaxPoints }

\* the requests: feature is None when no feature is asked for
ChartInputs ==
    [table : { [f \in {"CAD", "Viewer"} |->
                  IF f = "CAD" THEN r ELSE << Row(1, 1), Row(4, 2) >>] : r \in ChartRows },
     feature : {None, "CAD"},
     backfill_secs : {1, 2},
     cutoff_time : {0, 2},
     end_time : {3, 5}]

\* lines 2138-2154: the rows of a feature up to end_time, ORDER BY timestamp ASC (rows
\* of equal timestamp stay in insertion order)
RECURSIVE Selected(_, _)
Selected(rows, end_time) ==
    LET kept == SelectSeq(rows, LAMBDA r : r.timestamp <= end_time)
        least == CHOOSE i \in 1..Len(kept) :
                    /\ \A j \in 1..Len(kept) : kept[i].timestamp <= kept[j].timestamp
                    /\ \A j \in 1..(i - 1) : kept[j].timestamp # kept[i].timestamp
    IN IF kept = << >> THEN << >>
       ELSE << kept[least] >> \o
            Selected([j \in 1..(Len(kept) - 1) |-> IF j < least THEN kept[j] ELSE kept[j + 1]],
                     end_time)

\* a series in which every point after the first is preceded by a held point
RECURSIVE enhanced_always(_, _, _)
enhanced_always(points, backfill_secs, i) ==
    IF i > Len(points) THEN << >>
    ELSE (IF i > 1
          THEN << [points[i - 1] EXCEPT !.timestamp = points[i].timestamp - backfill_secs] >>
          ELSE << >>)
         \o << points[i] >> \o enhanced_always(points, backfill_secs, i + 1)

\* lines 2169-2186, from point i on
RECURSIVE enhanced_points(_, _, _)
enhanced_points(points, backfill_secs, i) ==
    IF i > Len(points) THEN << >>
    ELSE (IF i > 1 /\ points[i].timestamp - backfill_secs > points[i - 1].timestamp
          THEN << [points[i - 1] EXCEPT !.timestamp = points[i].timestamp - backfill_secs] >>
          ELSE << >>)
         \o << points[i] >> \o enhanced_points(points, backfill_secs, i + 1)

\* lines 2189-2191
filtered_points(points, cutoff_time, end_time) ==
    SelectSeq(points, LAMBDA p : cutoff_time <= p.timestamp /\ p.timestamp <= end_time)

\* lines 2105-2196: the 'features' of the response
api_stats(in) ==
    LET asked == IF in.feature = None
                 THEN { f \in DOMAIN in.table : in.table[f] # << >> }
                 ELSE { f \in DOMAIN in.table : f = in.feature /\ in.table[f] # << >> }
        series(f) == filtered_points(
                        enhanced_points(Selected(in.table[f], in.end_time), in.backfill_secs, 1),
                        in.cutoff_time, in.end_time)
    IN [f \in { g \in asked : series(g) # << >> } |-> series(f)]

\* a GET /api/stats is answered
ApiStats ==
    /\ ~chart.asked
    /\ \E in \in ChartInputs : chart' = [asked |-> TRUE, in |-> in, out |-> api_stats(in)]
    /\ actor' = "api_stats"
    /\ UNCHANGED <<loopFrame, _shutdown_event, loop, restart, update>>

InitChart == InitWith("done") /\ ~TEAMS_ENABLED /\ _clm_available = PyFalse

NextChart == ApiStats

SpecChart == InitChart /\ [][NextChart]_vars

-----------------------------------------------------------------------------
(* restart_service; the service answers each query with any code             *)

MaxPolls == 3       \* the turns of wait_for_state that fit before its deadline

restartFrame == <<loopFrame, _shutdown_event, loop, chart, update>>

\* the record after get_service_state returned code
Observed(r, code) ==
    [r EXCEPT !.code = code, !.seen_stopped = r.seen_stopped \/ code = STATE_STOPPED]

\* lines 1135-1143: the initial query
RestartBegin ==
    /\ restart.at = "idle"
    /\ \E code \in ServiceCodes :
         restart' = [Observed(restart, code) EXCEPT
                        !.at = IF code = STATE_STOPPED THEN "pause" ELSE "stop"]
    /\ actor' = "restart"
    /\ UNCHANGED restartFrame

\* lines 1144-1166: sc stop, whether it succeeds or raises
RestartStop ==
    /\ restart.at = "stop"
    /\ restart' = [restart EXCEPT !.at = "wait_stopped", !.polls = 0,
                                  !.commands = Append(@, "stop")]
    /\ actor' = "restart"
    /\ UNCHANGED restartFrame

\* a wait that goes on to the start command when its time is up
WaitStoppedGoingOn ==
    /\ restart.at = "wait_stopped"
    /\ \E code \in ServiceCodes, late \in BOOLEAN :
         restart' =
            IF code = STATE_STOPPED
            THEN [Observed(restart, code) EXCEPT !.at = "pause"]
            ELSE IF late \/ restart.polls + 1 >= MaxPolls
            THEN [Observed(restart, code) EXCEPT !.at = "pause"]
            ELSE [Observed(restart, code) EXCEPT !.polls = @ + 1]
    /\ actor' = "restart"
    /\ UNCHANGED restartFrame

\* lines 1167-1181 with wait_for_state 1104-1114: one query of the wait for STOPPED;
\* the deadline passes after this query (late) or after MaxPolls of them, and then the
\* restart is given up (the queries of 1172 and 1176 are for the log only)
WaitStopped ==
    /\ restart.at = "wait_stopped"
    /\ \E code \in ServiceCodes, late \in BOOLEAN :
         restart' =
            IF code = STATE_STOPPED
            THEN [Observed(restart, code) EXCEPT !.at = "pause"]
            ELSE IF late \/ restart.polls + 1 >= MaxPolls
            THEN [Observed(restart, code) EXCEPT !.at = "done", !.success = PyFalse]
            ELSE [Observed(restart, code) EXCEPT !.polls = @ + 1]
    /\ actor' = "restart"
    /\ UNCHANGED restartFrame

\* lines 1183-1213: the pause, then sc start, whether it succeeds or raises
RestartStart ==
    /\ restart.at = "pause"
    /\ restart' = [restart EXCEPT !.at = "wait_running", !.polls = 0,
                                  !.commands = Append(@, "start")]
    /\ actor' = "restart"
    /\ UNCHANGED restartFrame

\* lines 1214-1226 with wait_for_state: one query of the wait for RUNNING
WaitRunning ==
    /\ restart.at = "wait_running"
    /\ \E code \in ServiceCodes, late \in BOOLEAN :
         restart' =
            IF code = STATE_RUNNING \/ late \/ restart.polls + 1 >= MaxPolls
            THEN [Observed(restart, code) EXCEPT !.at = "final"]
            ELSE [Observed(restart, code) EXCEPT !.polls = @ + 1]
    /\ actor' = "restart"
    /\ UNCHANGED restartFrame

\* lines 1228-1233: the final query and the result
RestartFinal ==
    /\ restart.at = "final"
    /\ \E code \in ServiceCodes :
         restart' = [Observed(restart, code) EXCEPT
                        !.at = "done", !.success = PyBool(code = STATE_RUNNING)]
    /\ actor' = "restart"
    /\ UNCHANGED restartFrame

InitRestart == InitWith("done") /\ ~TEAMS_ENABLED /\ _clm_available = PyFalse

NextRestart ==
    \/ RestartBegin
    \/ RestartStop
    \/ WaitStopped
    \/ RestartStart
    \/ WaitRunning
    \/ RestartFinal

SpecRestart == InitRestart /\ [][NextRestart]_vars

-----------------------------------------------------------------------------
(* update_check_loop: one call of check_github_latest_version a day          *)

MaxChecks == 3

VERSION == "1.5"
\* what the releases API names as latest: the running version or a later one; a
\* release can be withdrawn, and the one before it is the latest again
Versions == {VERSION, "2.0", "2.1"}

\* line 418, in the runs with the update notification switched on
TEAMS_NOTIFY_UPDATE == TRUE

\* lines 710-764, called at line 771: the request fails or names no release (latest is
\* None), or it names one; the notification is delivered or not
CheckGithub ==
    /\ update.checks < MaxChecks
    /\ \E latest \in Versions \cup {None}, sent \in BOOLEAN :
         update' =
            IF /\ latest # None /\ latest # VERSION /\ TEAMS_ENABLED /\ TEAMS_NOTIFY_UPDATE
               /\ update._LAST_TEAMS_NOTIFIED_VERSION # latest
            THEN [update EXCEPT
                    !.checks = @ + 1,
                    !.tried = [version |-> latest, sent |-> PyBool(sent)],
                    !.sent = IF sent THEN Append(@, latest) ELSE @,
                    !._LAST_TEAMS_NOTIFIED_VERSION = IF sent THEN latest ELSE @]
            ELSE [update EXCEPT !.checks = @ + 1,
                                !.tried = [version |-> latest, sent |-> None]]
    /\ actor' = "update"
    /\ UNCHANGED <<loopFrame, _shutdown_event, loop, chart, restart>>

InitUpdate == InitWith("done") /\ _clm_available = PyFalse

NextUpdate == CheckGithub

SpecUpdate == InitUpdate /\ [][NextUpdate]_vars

-----------------------------------------------------------------------------
(* The periodic cycle and a manual refresh while the license server changes: *)
(* each run of the status command returns another text                       *)

MaxOverlapFetches == 2

\* what the status command returns, by the order in which its runs return
Successive == << TxtQuiet, TxtBusy >>

\* refresh_loop 1795, manual_refresh 1936
FetchNext(t) ==
    /\ Fetch(t, MaxOverlapFetches)
    /\ loc'[t].out = Successive[fetches + 1]

InitOverlap == InitWith("done") /\ _clm_available = PyFalse

NextOverlap ==
    \/ \E t \in Cyclers :
         \/ FetchNext(t)
         \/ Publish(t)
         \/ PublishDone(t)
         \/ DaemonRead(t)
         \/ DaemonWrite(t, SinkUp)
         \/ DupRead(t)
         \/ DupWrite(t, SinkUp)
         \/ ExtratimeRead(t)
         \/ ExtratimeWrite(t, SinkUp)
         \/ SoldoutRead(t)
         \/ SoldoutWrite(t, SinkUp)
    \/ StoreStats(Worker, {"ok"})

SpecOverlap == InitOverlap /\ [][NextOverlap]_vars

-----------------------------------------------------------------------------
(* Cycles in which a detector raises, or the Recorder's database fails       *)

MaxFaultFetches == 2

\* the positions inside the four detectors
InDetector == {"daemon", "daemon_w", "dup", "dup_w", "ext", "ext_w", "so", "so_w"}

\* where the cycle goes on when the detector running at position at is left
after_detector(t, at) ==
    IF at \in {"daemon", "daemon_w"} THEN after_daemon(t)
    ELSE IF at \in {"dup", "dup_w"} THEN "ext"
    ELSE IF at \in {"ext", "ext_w"} THEN "so"
    ELSE "idle"

\* a cycle whose detector calls are not guarded: the exception reaches the handler of
\* the whole cycle
DetectorRaisesUnguarded(t) ==
    /\ pc[t] \in InDetector
    /\ ~loc[t].failed
    /\ Goto(t, "publish_err", [Fresh(loc[t]) EXCEPT !.done = "raised", !.failed = TRUE])
    /\ UNCHANGED <<cfg, clock, _lock, snapshotVars, detectorVars, statsVars, eidVars,
                   fetches, requests, sentVars, tblVars>>

\* refresh_loop 1812-1815, 1818-1821, 1823-1826, 1828-1831 and manual_refresh 1948-1966:
\* the detector raises, before it has written anything, and the except of its own try
\* statement takes the exception
DetectorRaises(t) ==
    /\ pc[t] \in InDetector
    /\ ~loc[t].failed
    /\ Goto(t, after_detector(t, pc[t]), [Fresh(loc[t]) EXCEPT !.done = "raised"])
    /\ UNCHANGED <<cfg, clock, _lock, snapshotVars, detectorVars, statsVars, eidVars,
                   fetches, requests, sentVars, tblVars>>

\* every detector enabled, nothing excluded
InitFaulty ==
    /\ InitOf("done", { Config(TRUE, TRUE, TRUE, TRUE, TRUE, TRUE, {}, {}) })
    /\ _clm_available = PyFalse

\* a cycle of either kind begins while no other is running
FetchAlone(t) ==
    /\ \A u \in Cyclers : pc[u] = "idle"
    /\ Fetch(t, MaxFaultFetches)

NextFaulty ==
    \/ \E t \in Cyclers :
         \/ FetchAlone(t)
         \/ Publish(t)
         \/ PublishDone(t)
         \/ PublishError(t)
         \/ DaemonRead(t)
         \/ DaemonWrite(t, SinkUp)
         \/ DupRead(t)
         \/ DupWrite(t, SinkUp)
         \/ ExtratimeRead(t)
         \/ ExtratimeWrite(t, SinkUp)
         \/ SoldoutRead(t)
         \/ SoldoutWrite(t, SinkUp)
         \/ DetectorRaises(t)
    \/ StoreStats(Worker, DbOutcomes)

SpecFaulty == InitFaulty /\ [][NextFaulty]_vars

-----------------------------------------------------------------------------
(* check_extratime called on its own on the parse of texts with sessions of  *)
(* several ages on three features, at the two values of the wall clock       *)

\* 72 hours before the first value of the wall clock, and a minute less than that
AtThreshold == StartWd(11, 15, 9, 0)
UnderThreshold == StartWd(11, 15, 9, 1)

ExtraStarts == { OldStart, AtThreshold, UnderThreshold, StartBad }

ExtraTexts ==
    { << LFeature("CAD", 2, 2),
         LUser("alice", "host1", "1.0", s1),
         LUser("alice", "host1", "1.0", s2),
         LFeature("CAD_Maint", 1, 1),
         LUser("alice", "host1", "1.0", s3),
         LFeature("Viewer", 1, 1),
         LUser("alice", "host1", "1.0", s4) >> :
        s1 \in ExtraStarts, s2 \in ExtraStarts, s3 \in ExtraStarts, s4 \in ExtraStarts }

\* check_extratime 1617-1672 in one step, on the result of the last parse
CheckExtratime ==
    /\ TEAMS_ENABLED /\ TEAMS_NOTIFY_EXTRATIME
    /\ loc[Worker].done = "parse"
    /\ _notified_extratime' =
          _notified_extratime \cup NewExtratime(txtOut, Nows[clock], _notified_extratime)
    /\ extratime_sent' =
          Bump(extratime_sent, NewExtratime(txtOut, Nows[clock], _notified_extratime))
    /\ loc' = [loc EXCEPT ![Worker] =
                  [Loc0 EXCEPT !.seen = _notified_extratime,
                               !.new = NewExtratime(txtOut, Nows[clock], _notified_extratime),
                               !.done = "ext",
                               !.emitted =
                                  { ExtratimeNote(txtOut, Nows[clock], k) :
                                      k \in NewExtratime(txtOut, Nows[clock], _notified_extratime) }]]
    /\ actor' = Worker
    /\ UNCHANGED <<cfg, clock, pc, _lock, snapshotVars, _notified_duplicates,
                   _soldout_last_state, _daemon_last_state, statsVars, eidVars, fetches,
                   requests, daemon_sent, dup_sent, soldout_sent, undelivered, tblVars>>

InitExtra ==
    /\ InitFrom("done", SinkConfigs, ExtraTexts, { NoStamp })
    /\ _clm_available = PyFalse

NextExtra == Tick \/ ParseLmstat \/ CheckExtratime

SpecExtra == InitExtra /\ [][NextExtra]_vars

-----------------------------------------------------------------------------
(* The daemon-state detector                                                 *)

\* rules 1 to 3 of the decision table: the combinations that give Down
TableDown(serviceRunning, portOpen) ==
    \/ serviceRunning = PyFalse /\ portOpen = PyFalse
    \/ serviceRunning = PyFalse /\ portOpen = None
    \/ portOpen = PyFalse /\ serviceRunning = None

\* the ordered decision table, rule 4 included
TableState(lmstatOk, serviceRunning, portOpen) ==
    IF TableDown(serviceRunning, portOpen) THEN PyFalse
    ELSE IF lmstatOk THEN PyTrue
    ELSE IF serviceRunning = PyTrue \/ portOpen = PyTrue THEN PyTrue ELSE PyFalse

JustEvaluated(t, detector) == actor = t /\ loc[t].done = detector

\* C2: an evaluation that found the stored state Unknown sends nothing when it computed
\* Up and exactly one "down" notification when it computed Down, and the stored state
\* is then the computed state
C2_FirstObservation ==
    \A t \in Cyclers :
        (JustEvaluated(t, "daemon") /\ loc[t].prev = None) =>
            /\ loc[t].current \in {PyTrue, PyFalse}
            /\ loc[t].current = PyTrue => loc[t].emitted = << >>
            /\ loc[t].current = PyFalse =>
                  /\ loc[t].emitted = << PyFalse >>
                  /\ daemon_sent # << >>
                  /\ daemon_sent[Len(daemon_sent)] = PyFalse
            /\ _daemon_last_state = loc[t].current

\* a first observation that computed Down and sent the one notification
C2_Witness ==
    \E t \in Cyclers :
        /\ JustEvaluated(t, "daemon")
        /\ loc[t].prev = None
        /\ loc[t].current = PyFalse
        /\ loc[t].emitted = << PyFalse >>

\* what an evaluation after the first did, against the stored state it read
LaterEvaluations ==
    \A t \in Cyclers :
        (JustEvaluated(t, "daemon") /\ loc[t].prev # None) =>
            /\ loc[t].current \in {PyTrue, PyFalse}
            /\ loc[t].current # loc[t].prev =>
                  /\ loc[t].emitted = << loc[t].current >>
                  /\ daemon_sent[Len(daemon_sent)] = loc[t].current
            /\ loc[t].current = loc[t].prev => loc[t].emitted = << >>
            /\ _daemon_last_state = loc[t].current

\* C3: every evaluation after the first, by the worker or by a manual refresh, sends
\* exactly one notification when the state it computed differs from the stored state it
\* read and none when it is the same, and the stored state never returns to Unknown
C3_FlipNotifications ==
    /\ []LaterEvaluations
    /\ [][_daemon_last_state # None => _daemon_last_state' # None]_vars

\* a manual refresh saw the daemon come back and sent the "up again" notification
C3_Witness ==
    /\ JustEvaluated(Manual, "daemon")
    /\ loc[Manual].prev = PyFalse
    /\ loc[Manual].current = PyTrue
    /\ loc[Manual].emitted = << PyTrue >>

-----------------------------------------------------------------------------
(* The cycles of the worker and of a manual refresh                          *)

\* thread t is between the start of its fetch and the end of its detector phase
InCycle(t) == pc[t] # "idle"

\* C9: a manual refresh and a periodic cycle are never both between the start of their
\* fetch and the end of their detector phase
C9_NeverConcurrent == ~(InCycle(Worker) /\ InCycle(Manual))

\* C4: of the sold-out notifications sent for one feature, over scheduled and manual
\* cycles, no two consecutive ones carry the same value
C4_NoRepeatedValue ==
    \A f \in DOMAIN soldout_sent :
        Len(soldout_sent[f]) = 2 => soldout_sent[f][1] # soldout_sent[f][2]

\* C6: over all cycles, of the worker or of a manual refresh, a (feature, user,
\* computer) key is notified at most once
C6_DuplicateAtMostOnce == \A k \in DOMAIN dup_sent : dup_sent[k] <= 1

\* C8: over all cycles, scheduled or manual, a (user, computer) key gets at most one
\* extended-usage notification
C8_ExtratimeAtMostOnce == \A k \in DOMAIN extratime_sent : extratime_sent[k] <= 1

-----------------------------------------------------------------------------
(* The sold-out detector                                                     *)

\* eligible: not excluded, not maintenance-tagged, used and total both known
Eligible(parsed_data, f) ==
    /\ lower(f) \notin TEAMS_SOLDOUT_EXCLUSION
    /\ ~has_maint(lower(f))
    /\ parsed_data[f].total # NoneInt
    /\ parsed_data[f].used # NoneInt

\* the notifications an evaluation sent for feature f
NotesOf(t, f) == { c \in loc[t].emitted : c.feature = f }

-----------------------------------------------------------------------------
(* The duplicate-checkout detector                                           *)

\* what one evaluation did with the pairs of feature f, against the set it read
PairsHandled(t, f) ==
    LET users == parsed_of(t)[f].users
    IN  \A i \in 1..Len(users) :
            LET key == <<f, users[i].user, users[i].computer>>
                notes == { n \in loc[t].emitted : n.key = key }
            IN  /\ (Count(users, users[i].user, users[i].computer) > 1 /\ key \notin loc[t].seen) =>
                      /\ Cardinality(notes) = 1
                      /\ key \in _notified_duplicates
                /\ Count(users, users[i].user, users[i].computer) = 1 => notes = {}

\* C7 as stated: for every feature with at least 2 sessions, every pair occurring more
\* than once whose key is not yet in the state gets exactly one notification in that
\* cycle and the key is added; pairs occurring once get none
C7_EveryFeature ==
    \A t \in Cyclers :
        JustEvaluated(t, "dup") =>
            \A f \in DOMAIN parsed_of(t) :
                Len(parsed_of(t)[f].users) >= 2 => PairsHandled(t, f)

\* C7, amended: the same for every feature with at least 2 sessions that is not a
\* maintenance feature hidden by hide_maintenance, which check_duplicates skips
C7_ShownFeatures ==
    \A t \in Cyclers :
        JustEvaluated(t, "dup") =>
            \A f \in DOMAIN parsed_of(t) :
                (Len(parsed_of(t)[f].users) >= 2 /\ ~(HIDE_MAINT /\ has_maint(lower(f)))) =>
                    PairsHandled(t, f)

\* with maintenance features hidden, the duplicate on CAD is notified and the one on
\* CAD_Maint is not
C7_Witness ==
    \E t \in Cyclers :
        /\ JustEvaluated(t, "dup")
        /\ HIDE_MAINT
        /\ loc[t].seen = {}
        /\ { n.key : n \in loc[t].emitted } = { <<"CAD", "alice", "host1">> }
        /\ Count(parsed_of(t)["CAD_Maint"].users, "bob", "host2") = 2
        /\ _notified_duplicates = { <<"CAD", "alice", "host1">> }

-----------------------------------------------------------------------------
(* Who writes the shared state                                               *)

WritesSnapshot == snapshotVars' # snapshotVars

WritesDetectorState == detectorVars' # detectorVars

WritesEidCache == eidVars' # eidVars

\* C10 as stated: the snapshot, the entitlement cache and the detector state are written
\* only by the periodic worker thread
C10_OnlyWorker ==
    [][(WritesSnapshot \/ WritesDetectorState \/ WritesEidCache) => actor' = Worker]_vars

\* C10, amended: the snapshot and the detector state are written only by the worker
\* thread and by the flow of a manual refresh; the entitlement cache is written only by
\* the flows of GET /status and POST /refresh-eid, never by the worker
C10_Writers ==
    [][/\ (WritesSnapshot \/ WritesDetectorState) => actor' \in {Worker, Manual}
       /\ WritesEidCache => actor' \in {Status, EidRoute}]_vars

\* a GET /status that found the cache stale has replaced it, holding _lock, after a
\* cycle had published a snapshot
C10_Witness ==
    /\ actor = Status
    /\ pc[Status] = "eid_ts"
    /\ _lock = Status
    /\ _eid_cache = parse_eid_info(loc[Status].out)
    /\ _last_update # NoneInt

-----------------------------------------------------------------------------
(* The order of the steps of a cycle                                         *)

\* thread t takes a step from position a to position b
Moves(t, a, b) == pc[t] = a /\ pc'[t] = b

Step(t) == pc'[t] # pc[t]

\* fetch and parse, publish, and for the worker the Recorder
UpToRecorder(t) ==
    \/ Moves(t, "idle", "publish")
    \/ Moves(t, "publish", "publishing")
    \/ t = Worker /\ Moves(t, "publishing", "stats")

\* the three content-based detectors one after the other, from position a to position b
ContentDetectors(t, a, b) ==
    \/ Moves(t, a, "dup")
    \/ Moves(t, "dup", "dup_w") \/ Moves(t, "dup", "ext") \/ Moves(t, "dup_w", "ext")
    \/ Moves(t, "ext", "ext_w") \/ Moves(t, "ext", "so") \/ Moves(t, "ext_w", "so")
    \/ Moves(t, "so", "so_w") \/ Moves(t, "so", b) \/ Moves(t, "so_w", b)

\* the daemon-state detector, from position a to position b, called with the hint
\* computed from this cycle's output
DaemonDetector(t, a, b) ==
    \/ Moves(t, a, "daemon")
    \/ Moves(t, "daemon", "daemon_w") /\
          loc'[t].hint = (~loc[t].failed /\ _lmstat_output_indicates_ok(loc[t].out))
    \/ Moves(t, "daemon", b) /\ ~(TEAMS_ENABLED /\ TEAMS_NOTIFY_DAEMON)
    \/ Moves(t, "daemon_w", b)

\* C11 as stated: in a successful scheduled cycle the steps are status command, parse,
\* publish, Recorder, the three content-based detectors, and only then the daemon-state
\* detector with this cycle's lmstatOk
C11_DaemonLast ==
    [][(Step(Worker) /\ ~loc'[Worker].failed) =>
          \/ UpToRecorder(Worker)
          \/ ContentDetectors(Worker, "stats", "daemon")
          \/ DaemonDetector(Worker, "so_w", "idle")]_vars

\* C11, amended: in a successful scheduled cycle the steps are status command, parse,
\* publish, Recorder, then the daemon-state detector with this cycle's lmstatOk, and only
\* then the three content-based detectors (duplicate, extended-usage, sold-out)
C11_DaemonFirst ==
    [][(Step(Worker) /\ ~loc'[Worker].failed) =>
          \/ UpToRecorder(Worker)
          \/ DaemonDetector(Worker, "stats", "dup")
          \/ ContentDetectors(Worker, "daemon_w", "idle")]_vars

\* the worker's daemon-state detector has run with lmstatOk true, and the duplicate
\* detector of the same cycle has not started yet
C11_Witness ==
    /\ JustEvaluated(Worker, "daemon")
    /\ ~loc[Worker].failed
    /\ loc[Worker].hint
    /\ pc[Worker] = "dup"
    /\ _parsed = parse_lmstat(loc[Worker].out)

\* C12: when the status command fails in a cycle, scheduled or manual, the last error is
\* set, the published raw output, features and last-update time stay as they were, the
\* Recorder and the three content-based detectors are not run, and the daemon-state
\* detector is run with lmstatOk = false
C12_FailedCycle ==
    [][\A t \in Cyclers :
          (Step(t) /\ loc'[t].failed) =>
              /\ \/ Moves(t, "idle", "publish_err")
                 \/ Moves(t, "publish_err", "daemon") /\ _last_error' # None
                 \/ Moves(t, "daemon", "daemon_w") /\ ~loc'[t].hint
                 \/ Moves(t, "daemon", "idle") /\ ~(TEAMS_ENABLED /\ TEAMS_NOTIFY_DAEMON)
                 \/ Moves(t, "daemon_w", "idle")
              /\ UNCHANGED <<_raw_output, _parsed, _last_update>>
              /\ UNCHANGED <<statsVars, _notified_duplicates, _notified_extratime,
                             _soldout_last_state, dup_sent, extratime_sent, soldout_sent>>]_vars

\* a manual refresh whose status command failed has run the daemon-state detector with
\* lmstatOk = false and is over; the error is published over the earlier snapshot
C12_Witness ==
    /\ JustEvaluated(Manual, "daemon")
    /\ loc[Manual].failed
    /\ ~loc[Manual].hint
    /\ pc[Manual] = "idle"
    /\ _last_error # None
    /\ _raw_output # << >>

\* C13: a manual refresh never appends to the usage store and never changes the
\* Recorder's last-state cache, and on success it runs the four detectors on the
\* snapshot it parsed
C13_ManualBypassesRecorder ==
    [][Step(Manual) =>
          /\ UNCHANGED statsVars
          /\ ~loc'[Manual].failed =>
                \/ Moves(Manual, "idle", "publish")
                \/ Moves(Manual, "publish", "publishing")
                \/ DaemonDetector(Manual, "publishing", "dup")
                \/ ContentDetectors(Manual, "daemon_w", "idle")]_vars

\* a successful manual refresh has run its last detector, and the store and the cache
\* hold what the worker's cycle left there
C13_Witness ==
    /\ actor = Manual
    /\ pc[Manual] = "idle"
    /\ ~loc[Manual].failed
    /\ loc[Manual].out # << >>
    /\ _parsed = parse_lmstat(loc[Manual].out)
    /\ _stats_last_state # EmptyMap
    /\ loc[Worker].out # loc[Manual].out

-----------------------------------------------------------------------------
(* The Recorder                                                              *)

\* eligible for the Recorder: not hidden, not maintenance, used and total known
Recordable(licenses_data, f) ==
    /\ ~(\E h \in HIDE_LIST : Substr(h, lower(f)))
    /\ ~has_maint(lower(f))
    /\ licenses_data[f].used # NoneInt
    /\ licenses_data[f].total # NoneInt

RowsOf(store, f) == IF f \in DOMAIN store THEN store[f] ELSE << >>

\* the worker's call of store_feature_stats returns, its database work done
Recorded == Moves(Worker, "stats", "daemon") /\ loc'[Worker].db = "ok"

\* C14: store_feature_stats appends a row for an eligible feature exactly when its
\* (used, total) pair differs from the pair last recorded for the feature in this process
\* or the feature is seen for the first time, so the same snapshot fed twice in a row
\* appends rows only the first time
C14_RowOnChange ==
    [][Recorded =>
          \A f \in DOMAIN parsed_of(Worker) :
              Recordable(parsed_of(Worker), f) =>
                  LET used == parsed_of(Worker)[f].used
                      total == parsed_of(Worker)[f].total
                      changed == \/ f \notin DOMAIN _stats_last_state
                                 \/ _stats_last_state[f] # <<used, total>>
                  IN  /\ changed =>
                            /\ Len(RowsOf(feature_usage', f)) = Len(RowsOf(feature_usage, f)) + 1
                            /\ SubSeq(feature_usage'[f], 1, Len(RowsOf(feature_usage, f))) =
                                   RowsOf(feature_usage, f)
                            /\ feature_usage'[f][Len(feature_usage'[f])].used = used
                            /\ feature_usage'[f][Len(feature_usage'[f])].available = total
                      /\ ~changed => RowsOf(feature_usage', f) = RowsOf(feature_usage, f)
                      /\ _stats_last_state'[f] = <<used, total>>]_vars

\* the worker fed the Recorder the snapshot of its previous cycle again: CAD's pair is the
\* one recorded, and CAD still has its one row
C14_Witness ==
    /\ JustEvaluated(Worker, "stats")
    /\ loc[Worker].db = "ok"
    /\ "CAD" \in DOMAIN loc[Worker].seen
    /\ "CAD" \in DOMAIN parsed_of(Worker)
    /\ loc[Worker].seen["CAD"] =
          <<parsed_of(Worker)["CAD"].used, parsed_of(Worker)["CAD"].total>>
    /\ "CAD" \in DOMAIN feature_usage
    /\ Len(feature_usage["CAD"]) = 1

\* C15: in the persisted usage store no two consecutive rows of a feature carry the same
\* (used, available) pair, over any sequence of scheduled cycles, restarts of the process
\* included
C15_NoRepeatedRow ==
    \A f \in DOMAIN feature_usage :
        \A i \in 1..(Len(feature_usage[f]) - 1) :
            <<feature_usage[f][i].used, feature_usage[f][i].available>> #
                <<feature_usage[f][i + 1].used, feature_usage[f][i + 1].available>>

-----------------------------------------------------------------------------
(* The snapshot store and its readers                                        *)

\* what a reader holding _lock sees: the features are the parse of the source text
ReaderSeesOneSnapshot == _lock = Status => _parsed = parse_lmstat(_raw_output)

\* a writer ends its publish: the four fields are those of its cycle
PublishesTogether ==
    \A t \in Loaders :
        (pc[t] = "publishing" /\ Step(t)) =>
            /\ _raw_output' = loc[t].out
            /\ _parsed' = parse_lmstat(loc[t].out)
            /\ _last_update' = clock
            /\ _last_error' = None

\* C16: in every state a reader can observe while holding the snapshot lock the published
\* feature map is the parse of the published source text, and a successful publish
\* replaces raw output, features, last-update time and last error together
C16_OneSnapshot == []ReaderSeesOneSnapshot /\ [][PublishesTogether]_vars

\* a reader holds _lock over a published snapshot while a writer that fetched another
\* text waits to publish it
C16_Witness ==
    /\ _lock = Status
    /\ pc[Status] = "st_locked"
    /\ _raw_output # << >>
    /\ \E t \in Loaders : pc[t] = "publish" /\ loc[t].out # _raw_output

\* what GET /status answered, just after it answered
StatusReports ==
    JustEvaluated(Status, "status") =>
        IF _last_error # None
        THEN loc[Status].emitted = {[ok |-> FALSE, licenses |-> EmptyMap, eid_info |-> EmptyMap]}
        ELSE \E r \in loc[Status].emitted : r.ok /\ r.licenses = Filtered(_parsed)

\* the worker is in a cycle whose status command failed
WorkerFailing == loc[Worker].failed /\ pc[Worker] # "idle"

\* the worker is between two cycles, and starts the next one unless the run is at its bound
WorkerWaiting ==
    /\ pc[Worker] = "idle"
    /\ fetches + requests < MaxStoreOps => ENABLED Fetch(Worker, MaxStoreOps)

\* C17: a failure of the status command is not fatal to the worker: after a failed cycle
\* the reader reports the error (ok = false) instead of license data, the worker goes on
\* to its next cycle, and the next successful cycle clears the last error, so that the
\* reader reports the new snapshot
C17_FailureNotFatal ==
    /\ []StatusReports
    /\ (WorkerFailing ~> WorkerWaiting)
    /\ [][(pc[Worker] = "publishing" /\ Step(Worker)) =>
             (_last_error' = None /\ _parsed' = parse_lmstat(loc[Worker].out))]_vars

\* the reader reported the error of the worker's failed cycle, and the worker's next
\* cycle, a successful one, has just published and cleared the error
C17_Witness ==
    /\ actor = Worker
    /\ pc[Worker] = "stats"
    /\ fetches = 2
    /\ loc[Manual] = Loc0
    /\ loc[Main] = Loc0
    /\ loc[Status].done = "status"
    /\ \E r \in loc[Status].emitted : ~r.ok
    /\ _last_error = None
    /\ _parsed = parse_lmstat(loc[Worker].out)

-----------------------------------------------------------------------------
(* Delivery failures                                                         *)

\* the worker's detector call that ends in this step had a notification refused
RefusedIn(detector, at) ==
    /\ Moves(Worker, at, pc'[Worker])
    /\ undelivered'[detector] # undelivered[detector]

\* no notification value sent twice in a row
NoRepeat(log) == Len(log) = 2 => log[1] # log[2]

\* C18: for each of the four detectors, a refused delivery leaves the detector state
\* as a successful one does (daemon state stored, key remembered, sold-out value
\* stored), every notification of the call is attempted and the cycle goes on to the
\* next detector, and no transition or key is notified again in a later cycle
C18_DeliveryFailure ==
    /\ [][/\ RefusedIn("daemon", "daemon_w") =>
              /\ _daemon_last_state' = loc[Worker].current
              /\ loc'[Worker].emitted = DaemonNotes(loc[Worker].prev, loc[Worker].current)
              /\ pc'[Worker] = (IF loc[Worker].failed THEN "idle" ELSE "dup")
          /\ RefusedIn("dup", "dup_w") =>
              /\ loc[Worker].new \subseteq _notified_duplicates'
              /\ \A k \in loc[Worker].new : dup_sent'[k] = 1
              /\ pc'[Worker] = "ext"
          /\ RefusedIn("ext", "ext_w") =>
              /\ loc[Worker].new \subseteq _notified_extratime'
              /\ \A k \in loc[Worker].new : extratime_sent'[k] = 1
              /\ pc'[Worker] = "so"
          /\ RefusedIn("so", "so_w") =>
              /\ \A f \in SoldoutEligible(parsed_of(Worker)) :
                    _soldout_last_state'[f] = sold_out(parsed_of(Worker), f)
              /\ \A c \in loc[Worker].new :
                    soldout_sent'[c.feature][Len(soldout_sent'[c.feature])] = c.is_soldout
         ]_vars
    /\ [](/\ NoRepeat(daemon_sent)
          /\ \A k \in DOMAIN dup_sent : dup_sent[k] <= 1
          /\ \A k \in DOMAIN extratime_sent : extratime_sent[k] <= 1
          /\ \A f \in DOMAIN soldout_sent : NoRepeat(soldout_sent[f]))

\* the worker ends a cycle in which it met again a duplicate, an over-long session and
\* a sold-out feature whose notifications were refused, after a refused daemon
\* notification, and the sold-out detector has sent nothing
C18_Witness ==
    /\ JustEvaluated(Worker, "so")
    /\ loc[Worker].emitted = {}
    /\ undelivered.daemon # {}
    /\ DuplicateKeys(parsed_of(Worker)) \cap undelivered.dup # {}
    /\ OverKeys(parsed_of(Worker), Nows[clock]) \cap undelivered.ext # {}
    /\ \E c \in undelivered.so :
         /\ c.is_soldout
         /\ c.feature \in SoldoutEligible(parsed_of(Worker))
         /\ sold_out(parsed_of(Worker), c.feature)

-----------------------------------------------------------------------------
(* parse_lmstat                                                              *)

\* the lines of a text that are 'Users of <name>:' headers for name
HeadersOf(text, name) ==
    { i \in 1..Len(text) : re_feature(text[i]) /\ text[i].name = name }

Max(S) == CHOOSE i \in S : \A j \in S : j <= i

\* a text has just been parsed
Parsed == actor = Worker /\ loc[Worker].done = "parse"

\* C19: when a text has two 'Users of <name>:' headers for one name, the entry of that
\* name carries the total and used of the later header
C19_LaterHeaderWins ==
    Parsed =>
      \A name \in FeatureNames :
        Cardinality(HeadersOf(txtIn, name)) >= 2 =>
          /\ name \in DOMAIN txtOut
          /\ txtOut[name].total = txtIn[Max(HeadersOf(txtIn, name))].total
          /\ txtOut[name].used = txtIn[Max(HeadersOf(txtIn, name))].used

\* the text of the scenario: the header of CAD, 5 issued and 5 in use, and two
\* identical lines '"alice" "host1" (v1.0) start Fri 11/17 08:00'
ScenarioText ==
    << LFeature("CAD", 5, 5),
       LQuotedUser("alice", "host1", "1.0", FriStart),
       LQuotedUser("alice", "host1", "1.0", FriStart) >>

CurrentAt(text, i) ==
    parse_from([features |-> EmptyMap, current |-> None], SubSeq(text, 1, i - 1), 1).current

\* the lines of text up to line n that the user-checkout pattern matches while f is the
\* current feature, as sessions, in source order
RECURSIVE SessionsUnder(_, _, _)
SessionsUnder(text, f, n) ==
    IF n = 0 THEN << >>
    ELSE IF re_user(text[n]) /\ CurrentAt(text, n) = f
    THEN Append(SessionsUnder(text, f, n - 1),
                [user |-> text[n].user, computer |-> text[n].computer,
                 version |-> text[n].version, start |-> text[n].start])
    ELSE SessionsUnder(text, f, n - 1)

\* C21: for every feature of the parsed result, users has as many elements as there are
\* lines matching the user-checkout pattern while the feature is current, and holds
\* them in source order
C21_UsersPerFeature ==
    Parsed =>
      \A f \in DOMAIN txtOut :
        /\ Len(txtOut[f].users) = Len(SessionsUnder(txtIn, f, Len(txtIn)))
        /\ txtOut[f].users = SessionsUnder(txtIn, f, Len(txtIn))

\* text without its line i
Without(text, i) == SubSeq(text, 1, i - 1) \o SubSeq(text, i + 1, Len(text))

\* no pattern of parse_lmstat matches the line
Unmatched(line) ==
    ~re_feature(line) /\ ~re_named_block(line) /\ ~re_expiry(line) /\ ~re_user(line)

\* line i of text is an expiry line or a user-checkout line read before any feature
\* is open
BeforeAnyFeature(text, i) ==
    (re_expiry(text[i]) \/ re_user(text[i])) /\ CurrentAt(text, i) = None

\* C22: an expiry line or a user-checkout line before any feature is open changes
\* nothing in the result, an unmatched line changes nothing, and the empty text parses
\* to the empty map
C22_IgnoredLines ==
    Parsed =>
      /\ txtIn = << >> => txtOut = EmptyMap
      /\ \A i \in 1..Len(txtIn) :
            (BeforeAnyFeature(txtIn, i) \/ Unmatched(txtIn[i])) =>
                txtOut = parse_lmstat(Without(txtIn, i))

\* txtIn is parsed again: its earlier result is still in txtOut
ParsedAgain ==
    /\ loc[Worker].done \in {"dup", "other"}
    /\ loc'[Worker].done = "parse"

-----------------------------------------------------------------------------
(* lmstatOk                                                                  *)

\* the messages that hold a known failure substring, letter case set aside
FailureMessages == { MsgConnect, MsgConnectUpper, MsgStatus, MsgHost, MsgRefused, MsgCode }

\* the text holds a failure substring
HoldsFailure(text) ==
    \E i \in 1..Len(text) : text[i].k = "other" /\ text[i].text \in FailureMessages

\* C24: lmstatOk is false exactly when the text holds one of the failure substrings in
\* whatever letter case; a text with 'Cannot connect to license server system', service
\* STOPPED and a failed port probe give the state Down
C24_LmstatOk ==
    /\ loc[Worker].done = "hint" => (loc[Worker].hint <=> ~HoldsFailure(txtIn))
    /\ (/\ JustEvaluated(Worker, "daemon")
        /\ \E i \in 1..Len(txtIn) : txtIn[i] = LMessage(MsgConnect)
        /\ tblIn.code = 1
        /\ tblIn.port = PyFalse)
       => (~tblIn.hint /\ tblOut = PyFalse /\ _daemon_last_state = PyFalse)

\* the scenario: the text with the connect message, service STOPPED, port closed
C24_Witness ==
    /\ JustEvaluated(Worker, "daemon")
    /\ txtIn = << LFeature("CAD", 2, 1), LMessage(MsgConnect) >>
    /\ tblIn.code = 1
    /\ tblIn.port = PyFalse
    /\ tblOut = PyFalse

-----------------------------------------------------------------------------
(* _parse_start_timestamp                                                    *)

Yearless(s) == s.fmt \in {"wd", "md"}

\* the start string read in year y
InYear(s, y) == Date(y, s.mo, s.d, s.h, s.mi)

Exists(dt) == ValidDate(dt.y, dt.mo, dt.d, dt.h, dt.mi)

\* more than 2 days after now
FarAhead(dt, now) == Timestamp(dt) > Timestamp(now) + 2 * 24 * 60

StartParsed == loc[Worker].done = "start"

\* C25 as stated: a year-less start string that names an instant of the current year
\* resolves to that instant, or to the same month, day and time one year earlier when
\* the instant is more than 2 days after now
C25_YearlessStart ==
    (StartParsed /\ Yearless(tsIn.start) /\ Exists(InYear(tsIn.start, tsIn.now.y))) =>
        tsOut = Timestamp(IF FarAhead(InYear(tsIn.start, tsIn.now.y), tsIn.now)
                          THEN InYear(tsIn.start, tsIn.now.y - 1)
                          ELSE InYear(tsIn.start, tsIn.now.y))

\* C25 apart from the 29th of February: the result is None when the day does not exist
\* in the year it is read in; 'Fri 11/17 12:34' at 2025-11-18 09:00 resolves to
\* 2025-11-17 12:34, and a string with fields out of range resolves to None
C25_YearlessStartExisting ==
    (StartParsed /\ Yearless(tsIn.start)) =>
        LET s == tsIn.start
            now == tsIn.now
        IN  /\ ~Exists(InYear(s, now.y)) => tsOut = NoneInt
            /\ (Exists(InYear(s, now.y)) /\ ~FarAhead(InYear(s, now.y), now)) =>
                   tsOut = Timestamp(InYear(s, now.y))
            /\ (Exists(InYear(s, now.y)) /\ FarAhead(InYear(s, now.y), now)) =>
                   tsOut = (IF Exists(InYear(s, now.y - 1))
                            THEN Timestamp(InYear(s, now.y - 1))
                            ELSE NoneInt)
            /\ (s = StartWd(11, 17, 12, 34) /\ now = Date(2025, 11, 18, 9, 0)) =>
                   tsOut = Timestamp(Date(2025, 11, 17, 12, 34))
            /\ (s.mo = 13 /\ s.d = 40 /\ s.h = 99 /\ s.mi = 99) => tsOut = NoneInt

\* '12/31 12:34' read on 2025-01-01 09:00 has resolved to 2024-12-31 12:34
C25_Witness ==
    /\ StartParsed
    /\ tsIn.start = StartMd(12, 31, 12, 34)
    /\ tsIn.now = Date(2025, 1, 1, 9, 0)
    /\ tsOut = Timestamp(Date(2024, 12, 31, 12, 34))

-----------------------------------------------------------------------------
(* The extended-usage detector                                               *)

\* the session resolves and its elapsed time is at least the threshold
OverThreshold(session, now) ==
    LET start_ts == _parse_start_timestamp(session.start, now)
    IN  /\ start_ts # NoneInt
        /\ Timestamp(now) - start_ts >= TEAMS_EXTRATIME_DURATION * 60

\* the features on which key has a session over the threshold
Offending(parsed_data, now, key, features) ==
    { f \in features :
        \E i \in 1..Len(parsed_data[f].users) :
            /\ <<parsed_data[f].users[i].user, parsed_data[f].users[i].computer>> = key
            /\ OverThreshold(parsed_data[f].users[i], now) }

Listed(note) == { note.features[i].feature : i \in 1..Len(note.features) }

Descending(note) ==
    \A i, j \in 1..Len(note.features) :
        i < j => note.features[i].minutes >= note.features[j].minutes

\* C26 as stated: a notification lists exactly the features, excluded and maintenance
\* features apart, on which its key has a session that resolves and is over the
\* threshold, by descending elapsed time
C26_ListsOffending ==
    JustEvaluated(Worker, "ext") =>
        \A note \in loc[Worker].emitted :
            /\ Listed(note) =
                  Offending(txtOut, Nows[clock], note.key,
                            { f \in DOMAIN txtOut :
                                /\ lower(f) \notin TEAMS_EXTRATIME_EXCLUSION
                                /\ ~has_maint(lower(f)) })
            /\ Descending(note)

\* C26, amended: the same, a maintenance feature being left out only while
\* hide_maintenance is on
C26_ListsShown ==
    JustEvaluated(Worker, "ext") =>
        \A note \in loc[Worker].emitted :
            /\ Listed(note) =
                  Offending(txtOut, Nows[clock], note.key,
                            { f \in DOMAIN txtOut :
                                /\ lower(f) \notin TEAMS_EXTRATIME_EXCLUSION
                                /\ ~(HIDE_MAINT /\ has_maint(lower(f))) })
            /\ Descending(note)

\* a notification lists CAD alone, though the key has a session on CAD whose start does
\* not parse and an old session on the excluded feature Viewer
C26_Witness ==
    /\ JustEvaluated(Worker, "ext")
    /\ "viewer" \in TEAMS_EXTRATIME_EXCLUSION
    /\ txtOut["CAD"].users[1].start = OldStart
    /\ txtOut["CAD"].users[2].start = StartBad
    /\ txtOut["CAD_Maint"].users[1].start = UnderThreshold
    /\ txtOut["Viewer"].users[1].start = OldStart
    /\ \E note \in loc[Worker].emitted : Listed(note) = {"CAD"} /\ Len(note.features) = 1


-----------------------------------------------------------------------------
(* The entitlement cache: refresh on read, failure, suppression, atomicity  *)

\* status returns its response without having called refresh_eid_cache
StatusServesUnrefreshed ==
    /\ pc[Status] = "st_locked"
    /\ pc'[Status] = "idle"
    /\ _last_error = None

\* eids_page renders what it copied from the cache
EidsPageServes == pc[Browser] = "ep_lock" /\ pc'[Browser] = "idle"

\* a POST /refresh-eid is taken up
ExplicitRefresh == pc[EidRoute] = "idle" /\ pc'[EidRoute] # "idle"

\* C27: a consumer that reads entitlement data while the cache is empty or older than
\* 24 hours has a refresh attempted before it is served, also after a failed refresh,
\* and an explicit refresh request always runs the command
C27_RefreshBeforeServing ==
    [][/\ (StatusServesUnrefreshed \/ EidsPageServes) => ~EidStale(Nows[clock])
       /\ ExplicitRefresh => pc'[EidRoute] = "clm"]_vars

\* C27 for the status reader while the flag is true, and for the explicit request
C27_RefreshWhileAvailable ==
    [][/\ (StatusServesUnrefreshed /\ _clm_available = PyTrue) => ~EidStale(Nows[clock])
       /\ ExplicitRefresh => pc'[EidRoute] = "clm"]_vars

\* thread t leaves the position it was at
Leaves(t, at) == pc[t] = at /\ pc'[t] # at

\* the entitlement id heading the block that line i of a command output stands in
HeadingOf(text, i) ==
    text[CHOOSE j \in 1..(i - 1) :
           /\ text[j].k = "eid"
           /\ \A m \in (j + 1)..(i - 1) : text[m].k # "eid"].id

\* what a command output says on its own: per feature, the ids of the blocks naming it
EntitlementsOf(text) ==
    LET named == { i \in 1..Len(text) :
                     text[i].k = "feature" /\ \E j \in 1..(i - 1) : text[j].k = "eid" }
    IN [n \in { text[i].name : i \in named } |->
          { HeadingOf(text, i) : i \in { k \in named : text[k].name = n } }]

\* C28: a failed refresh sets the flag false and leaves the mapping and its timestamp
\* as they were; the flag turns true only at the end of a successful refresh, and a
\* successful refresh stores what its output says and nothing of the older mapping
C28_FailedRefresh ==
    [][/\ \A t \in Threads :
            Leaves(t, "eid_fail") =>
                /\ _clm_available' = PyFalse
                /\ _eid_cache' = _eid_cache
                /\ _eid_cache_timestamp' = _eid_cache_timestamp
       /\ (_clm_available # PyTrue /\ _clm_available' = PyTrue) =>
            /\ \E t \in Threads : Leaves(t, "eid_flag")
            /\ \E r \in ClmOutputs : _eid_cache' = EntitlementsOf(r)
       /\ \A t \in Threads :
            Leaves(t, "eid_cache") => _eid_cache' = EntitlementsOf(loc[t].out)]_vars

\* a refresh has just failed over a mapping captured days before, which is still there
C28_Witness ==
    /\ actor \in {Status, EidRoute}
    /\ pc[actor] \in {"idle", "st_resp"}
    /\ clock = 2
    /\ _clm_available = PyFalse
    /\ _eid_cache # EmptyMap
    /\ _eid_cache_timestamp = Timestamp(Nows[1])

\* thread t returns a response of the kind named
Responds(t, kind) == pc[t] # "idle" /\ pc'[t] = "idle" /\ loc'[t].done = kind

\* index returns in the step that takes the request up
IndexResponds == actor' = Browser /\ loc'[Browser].done = "index"

\* C29: while the availability flag is false no output carries entitlement data: status
\* answers with an empty eid_info, the dashboard does not show the EID features and the
\* EID page is not rendered, whatever the cache holds
C29_Suppressed ==
    [][_clm_available = PyFalse =>
         /\ Responds(Status, "status") =>
               \A r \in loc'[Status].emitted : r.eid_info = EmptyMap
         /\ IndexResponds => \A r \in loc'[Browser].emitted : ~r.show_eid_info
         /\ ~EidsPageServes]_vars

\* C29 with the EID page held to the flag it read when the request arrived
C29_SuppressedOnArrival ==
    [][_clm_available = PyFalse =>
         /\ Responds(Status, "status") =>
               \A r \in loc'[Status].emitted : r.eid_info = EmptyMap
         /\ IndexResponds => \A r \in loc'[Browser].emitted : ~r.show_eid_info
         /\ ~Leaves(Browser, "idle") \/ pc'[Browser] = "idle"]_vars

\* thread t has stored the mapping of its refresh (line 600) and not yet the timestamp
\* (601) or not yet the flag (602): these two are still those of an earlier refresh
MidRefresh(t) == pc[t] \in {"eid_ts", "eid_flag"}

\* a step in which a reader reads the cache: status at 1919-1925, eids_page at 2041
ReadsCache ==
    \/ Leaves(Status, "st_locked") /\ _last_error = None
    \/ Leaves(Status, "st_resp")
    \/ EidsPageServes

\* C30: a refresh replaces the cache atomically for the readers: none reads the mapping
\* of one refresh together with the timestamp or the flag of another
C30_AtomicReplace ==
    [][ReadsCache => \A t \in Threads : ~MidRefresh(t)]_vars

-----------------------------------------------------------------------------
(* Readers and the lock, shutdown, chart series, restart, update notice     *)

\* thread t is inside an external command: the CLM query of try_clm_query_features
InCommand(t) == pc[t] = "clm"

\* C31: a reader holds _lock only for reads and copies in memory: while a thread
\* holds the lock it runs no external command, so a publish never waits behind one
C31_NoCommandUnderLock ==
    \A t \in Threads : _lock = t => ~InCommand(t)

StoredInRange(f) ==
    SelectSeq(chart.in.table[f],
              LAMBDA r : chart.in.cutoff_time <= r.timestamp /\ r.timestamp <= chart.in.end_time)

\* the point that holds the values of prev until backfill_secs before point
Held(prev, point) == [prev EXCEPT !.timestamp = point.timestamp - chart.in.backfill_secs]

\* series shows the points of stored in their order, each one after the first with its
\* held point just before it when that point is later than the stored point before
ShowsWithHeld(series, stored) ==
    \E at \in [1..Len(stored) -> 1..Len(series)] :
        /\ \A k \in 1..Len(stored) : series[at[k]] = stored[k]
        /\ \A k \in 1..(Len(stored) - 1) : at[k] < at[k + 1]
        /\ \A k \in 2..Len(stored) :
              Held(stored[k - 1], stored[k]).timestamp > stored[k - 1].timestamp =>
                  /\ at[k] > 1
                  /\ series[at[k] - 1] = Held(stored[k - 1], stored[k])

Ascending(series) ==
    \A i \in 1..(Len(series) - 1) : series[i].timestamp <= series[i + 1].timestamp

\* C33: for each feature returned, the series holds every stored point of the requested
\* range and, just before each of these after the first of them, a point at its timestamp less
\* the refresh interval with the values of the stored point before it, when that
\* timestamp is later than the stored point before it; the series ascends in time
C33_ChartSeries ==
    chart.asked =>
        /\ \A f \in DOMAIN chart.out :
              /\ ShowsWithHeld(chart.out[f], StoredInRange(f))
              /\ Ascending(chart.out[f])
        /\ \A f \in DOMAIN chart.in.table :
              (StoredInRange(f) # << >> /\ chart.in.feature \in {None, f}) =>
                  f \in DOMAIN chart.out

\* three stored points in range, the second too close to the first for a held point,
\* the third with one
C33_Witness ==
    /\ chart.asked
    /\ chart.in.backfill_secs = 2
    /\ "CAD" \in DOMAIN chart.out
    /\ chart.out["CAD"] = << Row(0, 1), Row(1, 2), Row(2, 2), Row(4, 3) >>

\* the start command is among the commands issued
StartSent == \E i \in 1..Len(restart.commands) : restart.commands[i] = "start"

\* C34: restart_service issues the start command only after a query showed the service
\* STOPPED, at first or during the wait that follows the stop command; when that wait
\* ends without it the restart fails and no start command is sent; success is reported
\* only when the last state observed is RUNNING
C34_RestartOrder ==
    /\ StartSent => restart.seen_stopped
    /\ (restart.at = "done" /\ ~restart.seen_stopped) =>
           restart.success = PyFalse /\ ~StartSent
    /\ restart.success = PyTrue => restart.at = "done" /\ restart.code = STATE_RUNNING
    /\ restart.commands \in {<< >>, <<"stop">>, <<"start">>, <<"stop", "start">>}

\* a restart that stopped the service, saw it STOPPED, started it and reports success
C34_Witness ==
    /\ restart.at = "done"
    /\ restart.commands = <<"stop", "start">>
    /\ restart.success = PyTrue

\* C35: the update notification is delivered at most once for a version: after a
\* delivery for v no later check sends one for v again; after a failed send the version
\* is not recorded, so the next check tries again
C35_OncePerVersion ==
    /\ \A i, j \in 1..Len(update.sent) : update.sent[i] = update.sent[j] => i = j
    /\ update.tried.sent = PyFalse =>
           update._LAST_TEAMS_NOTIFIED_VERSION # update.tried.version

\* C35 for checks that find the same version one after the other
C35_OncePerRun ==
    /\ \A i \in 1..(Len(update.sent) - 1) : update.sent[i] # update.sent[i + 1]
    /\ update.tried.sent = PyFalse =>
           update._LAST_TEAMS_NOTIFIED_VERSION # update.tried.version
    /\ [][(update.tried.sent = PyFalse /\ update'.tried.version = update.tried.version) =>
             update'.tried.sent # None]_vars

\* both runs of the status command were made and the cycles that made them are over
BothComplete == fetches = Len(Successive) /\ \A t \in Cyclers : pc[t] = "idle"

\* C36: when a manual refresh and a periodic cycle overlap, the snapshot published once
\* both are over is that of the status command run last, never that of the earlier run
C36_LastFetchWins ==
    BothComplete =>
        /\ _raw_output = Successive[Len(Successive)]
        /\ _parsed = parse_lmstat(Successive[Len(Successive)])

\* C36 for cycles that do not overlap: the second command runs after the first publish
C36_LastPublishWins ==
    [][\A t \in Cyclers :
         Leaves(t, "publishing") => _raw_output' = loc[t].out /\ _parsed' = parse_lmstat(loc[t].out)]_vars

-----------------------------------------------------------------------------
(* Failures in the Recorder and the detectors; the sold-out state            *)

\* a row of feature f with the pair p has been committed
Committed(f, p) ==
    \E i \in 1..Len(RowsOf(feature_usage, f)) :
        <<feature_usage[f][i].used, feature_usage[f][i].available>> = p

\* C37: whenever the Recorder's cache holds pair p for feature f a row (f, p) has been
\* committed: a database error in store_feature_stats never leaves the cache updated
\* for a row that was not committed
C37_CacheMatchesStore ==
    \A f \in DOMAIN _stats_last_state : Committed(f, _stats_last_state[f])

\* C37 for the calls of store_feature_stats in which the database works or cannot be
\* opened
C37_CacheMatchesStoreUnlessCommitFails ==
    [][(Moves(Worker, "stats", "daemon") /\ loc'[Worker].db # "commit_error"
          /\ C37_CacheMatchesStore) => C37_CacheMatchesStore']_vars

\* thread t, in a cycle that published, has an exception raised in a detector
RaisedIn(t) ==
    /\ actor' = t
    /\ pc[t] \in InDetector
    /\ ~loc[t].failed
    /\ loc'[t].done = "raised"

\* the worker's Recorder call ends on a database error
RecorderFailed ==
    Moves(Worker, "stats", pc'[Worker]) /\ loc'[Worker].db \in {"connect_error", "commit_error"}

\* what a cycle calls next, by the order of lines 1804-1831
Following(at) ==
    IF at = "stats" THEN "daemon"
    ELSE IF at \in {"daemon", "daemon_w"} THEN "dup"
    ELSE IF at \in {"dup", "dup_w"} THEN "ext"
    ELSE IF at \in {"ext", "ext_w"} THEN "so"
    ELSE "idle"

\* C38: in a cycle that published, an exception in the Recorder or in a detector leaves
\* the cycle at the call that follows, so the remaining detectors run; it does not set
\* the last error and leaves the published snapshot as it is
C38_FailureIsContained ==
    [][\A t \in Cyclers :
         (RaisedIn(t) \/ (t = Worker /\ RecorderFailed)) =>
             /\ pc'[t] = Following(pc[t])
             /\ ~loc'[t].failed
             /\ UNCHANGED <<_raw_output, _parsed, _last_update, _last_error>>]_vars

\* the worker's cycle came to its end, the sold-out detector included, after its
\* duplicate detector raised, and the snapshot it published stands without error
C38_Witness ==
    /\ actor = Worker
    /\ pc[Worker] = "idle"
    /\ loc[Worker].done = "so"
    /\ dup_sent = EmptyMap
    /\ soldout_sent # EmptyMap
    /\ _last_error = None
    /\ _raw_output = TxtBusy
    /\ fetches = 1

\* the worker's call of check_soldout, run to its end
SoldoutRan == Moves(Worker, "so_w", "idle")

\* the stored sold-out value of f, None when there is none
StoredOf(last, f) == IF f \in DOMAIN last THEN PyBool(last[f]) ELSE None

\* f is in the snapshot of the worker's cycle, not excluded, with its counts known
Counted(f) ==
    /\ f \in DOMAIN parsed_of(Worker)
    /\ lower(f) \notin TEAMS_SOLDOUT_EXCLUSION
    /\ parsed_of(Worker)[f].used # NoneInt
    /\ parsed_of(Worker)[f].total # NoneInt

\* the notifications of this call about f
NotesAbout(f) == { c \in loc'[Worker].emitted : c.feature = f }

\* a feature stored as sold out is seen again: no notification when it is still sold
\* out, one 'available again' when it is not
SeenAgain(f) ==
    StoredOf(_soldout_last_state, f) = PyTrue =>
        NotesAbout(f) = IF sold_out(parsed_of(Worker), f)
                        THEN {}
                        ELSE { [feature |-> f, is_soldout |-> FALSE] }

\* C39: check_soldout leaves the stored value of a feature as it is in a cycle where the
\* feature is absent from the snapshot, excluded, maintenance-tagged or without known
\* counts; a feature that comes back still sold out is not notified again, one that
\* comes back available is notified once as available again
C39_FrameOfSoldout ==
    [][SoldoutRan =>
         \A f \in FeatureNames :
            IF Counted(f) /\ ~has_maint(lower(f))
            THEN SeenAgain(f)
            ELSE StoredOf(_soldout_last_state', f) = StoredOf(_soldout_last_state, f)]_vars

\* C39 with the maintenance-tagged features left alone only while HIDE_MAINT is on
C39_FrameOfSoldoutShown ==
    [][SoldoutRan =>
         \A f \in FeatureNames :
            IF Counted(f) /\ ~(HIDE_MAINT /\ has_maint(lower(f)))
            THEN SeenAgain(f)
            ELSE StoredOf(_soldout_last_state', f) = StoredOf(_soldout_last_state, f)]_vars

\* CAD was sold out, was absent from the next snapshot (the daemon was reported down,
\* then up), and is back available: the third call has just sent the one 'available
\* again'
C39_Witness ==
    /\ actor = Worker
    /\ pc[Worker] = "idle"
    /\ loc[Worker].done = "so"
    /\ fetches = 3
    /\ loc[Worker].out = TxtQuiet
    /\ _raw_output = TxtQuiet
    /\ "CAD" \in DOMAIN soldout_sent
    /\ soldout_sent["CAD"] = << TRUE, FALSE >>
    /\ loc[Worker].emitted = { [feature |-> "CAD", is_soldout |-> FALSE] }
    /\ _soldout_last_state["CAD"] = FALSE
    /\ daemon_sent = << PyFalse, PyTrue >>


====
